---- MODULE Spec2Model ----
(***************************************************************************)
(* Proof-of-work verification core of the Zcash light client:              *)
(*   crates/zcash_crypto            compact targets, difficulty filter,    *)
(*                                  contextual difficulty, Equihash,       *)
(*                                  verify_pow_with_context                *)
(*   crates/light_client_minimal    the sync driver and its header store   *)
(*                                                                         *)
(* Conventions.                                                            *)
(*  - TLC integers are 32-bit signed, so a Rust u32 that must range over   *)
(*    its whole width (heights, nBits) is a record [hi, lo] of two 16-bit  *)
(*    halves, value hi * 2^16 + lo.  Header times are u32 in the code and  *)
(*    are only compared and subtracted after a lossless cast to i64; the   *)
(*    model keeps them as integers below 2^31.                             *)
(*  - A 256-bit target is a sequence of 32 bytes, least significant first; *)
(*    At(t, i) is the code's t[i] (0-based).                               *)
(*  - A Rust Result is a record [tag, val] with tag "Ok" or "Err"; a       *)
(*    panic (failed assert!, division by zero, arithmetic overflow in a    *)
(*    build with overflow checks) is the third tag "Panic".  val is always *)
(*    a record.                                                            *)
(*  - BLAKE2b and SHA-256d are not computed: a header carries its hash,    *)
(*    and the Equihash group digest is a fixed function of the powheader   *)
(*    and the group counter (see generate_hash).                           *)
(***************************************************************************)
EXTENDS Integers, Sequences, FiniteSets, TLC

VARIABLES
    build,      \* "debug" (overflow checks on) or "release" (wrapping): fixed per run
    ctx,        \* the DifficultyContext: [tip_height, times, bits]
    op,         \* the last operation applied: [name, ...arguments]
    res,        \* its result
    odd,        \* operations so far that were not the next header of the chain
    pushes,     \* headers appended to ctx so far
    store,      \* the header store: the records of its file, in the order appended
    pc,         \* where sync_chain stands: "idle" (not running), "fetch", "verify", "persist"
    cur_height, \* sync_chain's local height
    cur_header  \* sync_chain's local header: the one fetched last

vars == <<build, ctx, op, res, odd, pushes, store, pc, cur_height, cur_header>>
syncvars == <<store, pc, cur_height, cur_header>>

----------------------------------------------------------------------------
(* Results *)

Unit == [unit |-> TRUE]
Ok(v) == [tag |-> "Ok", val |-> v]
Err(e) == [tag |-> "Err", val |-> e]
Panic(why) == [tag |-> "Panic", val |-> [why |-> why]]
IsOk(r) == r.tag = "Ok"
IsErr(r) == r.tag = "Err"
IsPanic(r) == r.tag = "Panic"
\* The result of a call that has not returned yet.
Pending == [tag |-> "Pending", val |-> Unit]

\* F applied to the value of v.  Operator arguments and LET definitions denote
\* expressions, which TLC may evaluate again at every use; a loop that threads its
\* state through F(value) evaluates each intermediate state once.
Bind(v, F(_)) == CHOOSE r \in {F(x) : x \in {v}} : TRUE

RECURSIVE ForLoop(_, _, _, _)
\* `for i in lo..hi { st = step(st, i) }`: the state after the iterations lo..hi-1 in
\* order, from state st.  The range is split in halves, which keeps the evaluation
\* shallow; the iterations run in the same order.
ForLoop(step(_, _), lo, hi, st) ==
    IF hi <= lo THEN st
    ELSE IF hi - lo = 1 THEN step(st, lo)
    ELSE Bind(ForLoop(step, lo, lo + (hi - lo) \div 2, st),
              LAMBDA half : ForLoop(step, lo + (hi - lo) \div 2, hi, half))

\* The sequence <<f[1], ..., f[n]>> of a function f on 1..n, elements evaluated.
Vec(f, n) == SubSeq(f, 1, n)

----------------------------------------------------------------------------
(* u32 values as two 16-bit halves *)

U32(hi, lo) == [hi |-> hi, lo |-> lo]
U32OfNat(n) == U32(n \div 65536, n % 65536)
U32_MAX == U32(65535, 65535)
U32Lt(a, b) == a.hi < b.hi \/ (a.hi = b.hi /\ a.lo < b.lo)
\* u32::wrapping_add(x, 1)
U32WrappingInc(x) ==
    IF x.lo < 65535 THEN U32(x.hi, x.lo + 1)
    ELSE IF x.hi < 65535 THEN U32(x.hi + 1, 0)
    ELSE U32(0, 0)
\* x << (8 * nbytes) on a u32: bits shifted past bit 31 are dropped.
U32ShlBytes(x, nbytes) ==
    CASE nbytes = 0 -> x
      [] nbytes = 1 -> U32((x.hi % 256) * 256 + (x.lo \div 256), (x.lo % 256) * 256)
      [] nbytes = 2 -> U32(x.lo, 0)
      [] nbytes = 3 -> U32((x.lo % 256) * 256, 0)
      [] OTHER -> U32(0, 0)
\* x >> 8 on a u32
U32Shr8(x) == U32(x.hi \div 256, (x.hi % 256) * 256 + (x.lo \div 256))

----------------------------------------------------------------------------
(* difficulty/target.rs *)

\* t[i] of a Rust array or slice (0-based)
At(t, i) == t[i + 1]

\* [0u8; 32]
ZeroTarget == <<0, 0, 0, 0, 0, 0, 0, 0, 0, 0, 0, 0, 0, 0, 0, 0,
                0, 0, 0, 0, 0, 0, 0, 0, 0, 0, 0, 0, 0, 0, 0, 0>>

\* The array whose i-th byte (0-based, i < n) is f[i].
bytes_from(f, n) == Vec([x \in 1..n |-> f[x - 1]], n)

\* One iteration of `for i in (0..32).rev()` in cmp_target, t-th from the top; the
\* loop returns at the first byte that differs, so a decided order is kept.
cmp_step(a, b, ord, t) ==
    IF ord # "Equal" THEN ord
    ELSE IF At(a, 31 - t) < At(b, 31 - t) THEN "Less"
    ELSE IF At(a, 31 - t) > At(b, 31 - t) THEN "Greater"
    ELSE "Equal"

\* cmp_target that walks the bytes from index 0 up, as if they were big-endian.
cmp_target_low_first(a, b) ==
    Bind(<<a, b>>, LAMBDA ab :
        ForLoop(LAMBDA ord, t : cmp_step(ab[1], ab[2], ord, 31 - t), 0, 32, "Equal"))

\* Compare two 256-bit little-endian integers, most significant byte first.
cmp_target(a, b) ==
    Bind(<<a, b>>, LAMBDA ab :
        ForLoop(LAMBDA ord, t : cmp_step(ab[1], ab[2], ord, t), 0, 32, "Equal"))

\* target_from_nbits that shifts the mantissa by exp - 2 bytes.
target_from_nbits_shift_off(n_bits) == Bind(n_bits, LAMBDA nbits :
    LET mant == (nbits.hi % 128) * 65536 + nbits.lo
        exp == nbits.hi \div 256
        mant_le == [i \in 0..31 |->
                      CASE i = 0 -> mant % 256
                        [] i = 1 -> (mant \div 256) % 256
                        [] i = 2 -> (mant \div 65536) % 256
                        [] OTHER -> 0]
        s == exp - 2
    IN  IF mant = 0 \/ s >= 32 \/ s <= -32 THEN ZeroTarget
        ELSE bytes_from([j \in 0..31 |->
                IF j - s >= 0 /\ j - s <= 31 THEN mant_le[j - s] ELSE 0], 32))

\* A decoding that keeps bit 23 in the mantissa.
target_from_nbits_keeps_sign(n_bits) == Bind(n_bits, LAMBDA nbits :
    LET mant == (nbits.hi % 256) * 65536 + nbits.lo
        exp == nbits.hi \div 256
        mant_le == [i \in 0..31 |->
                      CASE i = 0 -> mant % 256
                        [] i = 1 -> (mant \div 256) % 256
                        [] i = 2 -> (mant \div 65536) % 256
                        [] OTHER -> 0]
        s == exp - 3
    IN  IF mant = 0 \/ s >= 32 \/ s <= -32 THEN ZeroTarget
        ELSE bytes_from([j \in 0..31 |->
                IF j - s >= 0 /\ j - s <= 31 THEN mant_le[j - s] ELSE 0], 32))

\* Convert compact nBits to a 256-bit little-endian target.
target_from_nbits(n_bits) == Bind(n_bits, LAMBDA nbits :
    LET mant == (nbits.hi % 128) * 65536 + nbits.lo      \* nbits & 0x007f_ffff
        exp == nbits.hi \div 256                          \* (nbits >> 24) as u8
        mant_le == [i \in 0..31 |->
                      CASE i = 0 -> mant % 256
                        [] i = 1 -> (mant \div 256) % 256
                        [] i = 2 -> (mant \div 65536) % 256
                        [] OTHER -> 0]
        Arr(f) == bytes_from(f, 32)
        shift_bytes == exp - 3
    IN  IF mant = 0 THEN ZeroTarget
        ELSE IF shift_bytes = 0 THEN Arr(mant_le)
        ELSE IF shift_bytes > 0 THEN
            LET s == shift_bytes
            IN  IF s >= 32 THEN ZeroTarget
                ELSE Arr([j \in 0..31 |-> IF j >= s THEN mant_le[j - s] ELSE 0])
        ELSE
            LET s == -shift_bytes
            IN  IF s >= 32 THEN ZeroTarget
                ELSE Arr([j \in 0..31 |-> IF j < 32 - s THEN mant_le[j + s] ELSE 0]))

\* `while i < 32 && bytes_be[i] == 0 { i += 1 }` from i = 0: the index of the first
\* non-zero byte, or 32.
first_nonzero_be(bytes_be) ==
    ForLoop(LAMBDA i, t : IF i = t /\ bytes_be[t] = 0 THEN i + 1 ELSE i, 0, 32, 0)

\* Convert a 256-bit little-endian target to compact nBits.
target_to_nbits(target) == Bind(target, LAMBDA target_le :
    LET bytes_be == [k \in 0..31 |-> At(target_le, 31 - k)]
    IN  Bind(first_nonzero_be(bytes_be), LAMBDA i :
    LET size == 32 - i
        b0 == bytes_be[i]
        b1 == IF i + 1 < 32 THEN bytes_be[i + 1] ELSE 0
        b2 == IF i + 2 < 32 THEN bytes_be[i + 2] ELSE 0
        top3 == U32(b0, b1 * 256 + b2)          \* b0 << 16 | b1 << 8 | b2
        mant == IF size <= 3 THEN U32ShlBytes(top3, 3 - size) ELSE top3
        signed == (mant.hi \div 128) % 2 = 1    \* mant & 0x0080_0000 != 0
        mant2 == IF signed THEN U32Shr8(mant) ELSE mant
        size2 == IF signed THEN size + 1 ELSE size
    IN  IF i = 32 THEN U32(0, 0)
        ELSE U32(size2 * 256 + (mant2.hi % 128), mant2.lo)))  \* (size << 24) | (mant & 0x007f_ffff)

----------------------------------------------------------------------------
(* difficulty/filter.rs *)

DiffErr(kind) == [kind |-> kind]

\* PoWLimit(mainnet) = 2^243 - 1 as a 256-bit little-endian integer.
POW_LIMIT_LE ==
    <<255, 255, 255, 255, 255, 255, 255, 255, 255, 255, 255, 255, 255, 255, 255, 255,
      255, 255, 255, 255, 255, 255, 255, 255, 255, 255, 255, 255, 255, 255, 7, 0>>

\* Hash(header) <= ToTarget(nBits), with the target in (0, PoWLimit].
verify_difficulty_filter(header_hash, n_bits) ==
    Bind(<<header_hash, target_from_nbits(n_bits)>>, LAMBDA ht :
    LET hash_le == ht[1]
        target_le == ht[2]
    IN  IF target_le = ZeroTarget THEN Err(DiffErr("InvalidTarget"))
        ELSE IF cmp_target(target_le, POW_LIMIT_LE) = "Greater"
            THEN Err(DiffErr("TargetAbovePowLimit"))
        ELSE IF cmp_target(hash_le, target_le) = "Greater"
            THEN Err(DiffErr("HashAboveTarget"))
        ELSE Ok(Unit))

\* Backwards-compatible alias of verify_difficulty_filter (filter.rs).
filter_verify_difficulty(header_hash, n_bits) == verify_difficulty_filter(header_hash, n_bits)

----------------------------------------------------------------------------
(* difficulty/context.rs *)

POW_AVERAGING_WINDOW == 17
POW_MEDIAN_BLOCK_SPAN == 11
POW_MAX_ADJUST_DOWN_NUM == 32
POW_MAX_ADJUST_UP_NUM == 16
POW_ADJUST_DEN == 100
POW_DAMPING_FACTOR == 4
POW_TARGET_SPACING == 75
AVERAGING_WINDOW_TIMESPAN == POW_AVERAGING_WINDOW * POW_TARGET_SPACING
MIN_ACTUAL_TIMESPAN ==
    (AVERAGING_WINDOW_TIMESPAN * (POW_ADJUST_DEN - POW_MAX_ADJUST_UP_NUM)) \div POW_ADJUST_DEN
MAX_ACTUAL_TIMESPAN ==
    (AVERAGING_WINDOW_TIMESPAN * (POW_ADJUST_DEN + POW_MAX_ADJUST_DOWN_NUM)) \div POW_ADJUST_DEN

\* Rust's integer division truncates toward zero; \div floors.
TruncDiv(a, b) == IF a >= 0 THEN a \div b ELSE -((-a) \div b)

\* DifficultyContext::new
DifficultyContext_new(tip_height) ==
    [tip_height |-> tip_height, times |-> <<>>, bits |-> <<>>]

\* push_header that forgets to evict the oldest nBits.
push_header_keeps_bits(self, height, n_time, n_bits) ==
    LET times1 == Append(self.times, n_time)
        times2 == IF Len(times1) > POW_MEDIAN_BLOCK_SPAN + POW_AVERAGING_WINDOW
                  THEN Tail(times1) ELSE times1
    IN  [tip_height |-> height, times |-> times2, bits |-> Append(self.bits, n_bits)]

\* push_header that evicts as soon as a list has reached its bound.
push_header_evicts_at_bound(self, height, n_time, n_bits) ==
    LET times1 == Append(self.times, n_time)
        times2 == IF Len(times1) >= POW_MEDIAN_BLOCK_SPAN + POW_AVERAGING_WINDOW
                  THEN Tail(times1) ELSE times1
        bits1 == Append(self.bits, n_bits)
        bits2 == IF Len(bits1) >= POW_AVERAGING_WINDOW THEN Tail(bits1) ELSE bits1
    IN  [tip_height |-> height, times |-> times2, bits |-> bits2]

\* DifficultyContext::push_header; Vec::remove(0) is Tail.
push_header(self, height, n_time, n_bits) ==
    LET times1 == Append(self.times, n_time)
        times2 == IF Len(times1) > POW_MEDIAN_BLOCK_SPAN + POW_AVERAGING_WINDOW
                  THEN Tail(times1) ELSE times1
        bits1 == Append(self.bits, n_bits)
        bits2 == IF Len(bits1) > POW_AVERAGING_WINDOW THEN Tail(bits1) ELSE bits1
    IN  [tip_height |-> height, times |-> times2, bits |-> bits2]

RECURSIVE sort_insert(_, _)
sort_insert(sorted, x) ==
    IF sorted = <<>> THEN <<x>>
    ELSE IF x <= Head(sorted) THEN <<x>> \o sorted
    ELSE <<Head(sorted)>> \o sort_insert(Tail(sorted), x)

RECURSIVE sort_unstable(_)
\* slice::sort_unstable on integers: the ascending rearrangement.
sort_unstable(s) ==
    IF s = <<>> THEN <<>>
    ELSE Bind(sort_unstable(Tail(s)), LAMBDA sorted : sort_insert(sorted, Head(s)))

\* The 5th smallest instead of the 6th.
median_11_fifth(values) == sort_unstable(values)[POW_MEDIAN_BLOCK_SPAN \div 2]

\* tmp[POW_MEDIAN_BLOCK_SPAN / 2] of the sorted copy (0-based index 5).
median_11(values) == sort_unstable(values)[(POW_MEDIAN_BLOCK_SPAN \div 2) + 1]

\* values[from..to] of a Rust slice (0-based, to exclusive) as a sequence.
Slice(values, from, to) == SubSeq(values, from + 1, to)

actual_timespan(c) ==
    LET len == Len(c.times)
        recent_start == len - POW_MEDIAN_BLOCK_SPAN
        recent_median == median_11(Slice(c.times, recent_start, len))
        past_start == len - POW_MEDIAN_BLOCK_SPAN - POW_AVERAGING_WINDOW
        past_end == past_start + POW_MEDIAN_BLOCK_SPAN
        past_median == median_11(Slice(c.times, past_start, past_end))
    IN  IF len < POW_MEDIAN_BLOCK_SPAN + POW_AVERAGING_WINDOW THEN 0
        ELSE Bind(recent_median - past_median, LAMBDA span :
                IF span = 0 THEN AVERAGING_WINDOW_TIMESPAN ELSE span)

\* The damping with a floored division.
actual_timespan_damped_floor(c) ==
    LET ats == actual_timespan(c)
    IN  AVERAGING_WINDOW_TIMESPAN
          + ((ats - AVERAGING_WINDOW_TIMESPAN) \div POW_DAMPING_FACTOR)

actual_timespan_damped(c) ==
    LET ats == actual_timespan(c)
    IN  AVERAGING_WINDOW_TIMESPAN
          + TruncDiv(ats - AVERAGING_WINDOW_TIMESPAN, POW_DAMPING_FACTOR)

clamp_timespan(value) ==
    IF value < MIN_ACTUAL_TIMESPAN THEN MIN_ACTUAL_TIMESPAN
    ELSE IF value > MAX_ACTUAL_TIMESPAN THEN MAX_ACTUAL_TIMESPAN
    ELSE value

\* One iteration of the loop of add_target.
add_step(a, b, st, i) ==
    LET sum == At(a, i) + At(b, i) + st.carry
    IN  [carry |-> sum \div 256, out |-> Append(st.out, sum % 256)]

\* 256-bit addition; the carry out of byte 31 is dropped.
add_target(a, b) ==
    Bind(<<a, b>>, LAMBDA ab :
        ForLoop(LAMBDA st, i : add_step(ab[1], ab[2], st, i), 0, 32,
                [carry |-> 0, out |-> <<>>]).out)

\* One iteration of `for i in (0..32).rev()` in div_target_u32, t-th from the top.
div_step(x, rhs, st, t) ==
    LET cur == st.rem * 256 + At(x, 31 - t)
        q == cur \div rhs
    IN  [rem |-> cur % rhs, out |-> <<q % 256>> \o st.out]

\* 256-bit by u32 division, most significant byte first.
div_target_u32(x, rhs) ==
    Bind(<<x, rhs>>, LAMBDA xr :
        ForLoop(LAMBDA st, t : div_step(xr[1], xr[2], st, t), 0, 32,
                [rem |-> 0, out |-> <<>>]).out)

\* One iteration of the loop of mul_target_u32.
mul_step(x, rhs, st, i) ==
    LET cur == At(x, i) * rhs + st.carry
    IN  [carry |-> cur \div 256, out |-> Append(st.out, cur % 256)]

\* 256-bit by u32 multiplication; the carry out of byte 31 is dropped.
mul_target_u32(x, rhs) ==
    Bind(<<x, rhs>>, LAMBDA xr :
        ForLoop(LAMBDA st, i : mul_step(xr[1], xr[2], st, i), 0, 32,
                [carry |-> 0, out |-> <<>>]).out)

\* A minimum that always takes its first argument.
min_target_left(a, b) == a

min_target(a, b) ==
    Bind(<<a, b>>, LAMBDA ab : IF cmp_target(ab[1], ab[2]) = "Greater" THEN ab[2] ELSE ab[1])

mean_target(c) ==
    LET len == Len(c.bits)
        start == IF len > POW_AVERAGING_WINDOW THEN len - POW_AVERAGING_WINDOW ELSE 0
        acc == ForLoop(LAMBDA sum, i : add_target(sum, target_from_nbits(At(c.bits, i))),
                       start, len, ZeroTarget)
    IN  div_target_u32(acc, POW_AVERAGING_WINDOW)

\* The scaling that multiplies before it divides.
threshold_mul_first(c) ==
    LET ats == actual_timespan_damped(c)
        ats_bounded == clamp_timespan(ats)
        mean == mean_target(c)
        scaled == div_target_u32(mul_target_u32(mean, ats_bounded), AVERAGING_WINDOW_TIMESPAN)
    IN  min_target(scaled, POW_LIMIT_LE)

threshold(c) ==
    LET ats == actual_timespan_damped(c)
        ats_bounded == clamp_timespan(ats)
        mean == mean_target(c)
        scaled == mul_target_u32(div_target_u32(mean, AVERAGING_WINDOW_TIMESPAN), ats_bounded)
    IN  min_target(scaled, POW_LIMIT_LE)

\* tip_height + 1 on a u32: a panic with overflow checks, a wrap without.
tip_plus_one(c, bld) ==
    IF c.tip_height = U32_MAX /\ bld = "debug"
    THEN Panic("attempt to add with overflow")
    ELSE Ok(U32WrappingInc(c.tip_height))

\* Expected nBits of the header at header_height, given the context.
expected_nbits(c, header_height, bld) ==
    IF Len(c.times) < POW_MEDIAN_BLOCK_SPAN + POW_AVERAGING_WINDOW
       \/ Len(c.bits) < POW_AVERAGING_WINDOW
    THEN Err(DiffErr("InsufficientContext"))
    ELSE Bind(tip_plus_one(c, bld), LAMBDA next :
             IF IsPanic(next) THEN next
             ELSE IF header_height # next.val
             THEN Err([kind |-> "HeightMismatch", expected |-> next.val,
                       found |-> header_height])
             ELSE Ok(target_to_nbits(threshold(c))))

\* verify_difficulty that rejects only nBits above the expected ones.
verify_difficulty_above_only(c, header_height, header_bits, bld) ==
    Bind(expected_nbits(c, header_height, bld), LAMBDA expected :
        IF ~IsOk(expected) THEN expected
        ELSE IF U32Lt(expected.val, header_bits)
        THEN Err([kind |-> "BitsMismatch", expected |-> expected.val,
                  found |-> header_bits])
        ELSE Ok(Unit))

\* context.rs verify_difficulty: the header's nBits against the expected ones.
verify_difficulty(c, header_height, header_bits, bld) ==
    Bind(expected_nbits(c, header_height, bld), LAMBDA expected :
        IF ~IsOk(expected) THEN expected
        ELSE IF header_bits # expected.val
        THEN Err([kind |-> "BitsMismatch", expected |-> expected.val,
                  found |-> header_bits])
        ELSE Ok(Unit))

----------------------------------------------------------------------------
(* equihash.rs *)

EqErr(kind) == [kind |-> kind]

\* x.div_ceil(8)
DivCeil8(x) == (x + 7) \div 8

\* Params::new: None is the empty set, Some(p) the singleton {p}.
Params_new(n, k) ==
    IF n % 8 = 0 /\ k >= 3 /\ k < n /\ n % (k + 1) = 0
    THEN {[n |-> n, k |-> k]} ELSE {}

indices_per_hash_output(p) == 512 \div p.n
hash_output(p) == ((indices_per_hash_output(p) * p.n) \div 8) % 256
collision_bit_length(p) == p.n \div (p.k + 1)
collision_byte_length(p) == DivCeil8(collision_bit_length(p))

\* Blake2bParams::hash_length accepts 1..64 bytes and panics otherwise; the state
\* keeps what the digest depends on: personalization (n, k), length, absorbed bytes.
initialise_state(n, k, digest_len) ==
    IF digest_len < 1 \/ digest_len > 64 THEN Panic("Bad hash length")
    ELSE Ok([n |-> n, k |-> k, digest_len |-> digest_len, absorbed |-> "none"])

\* State::update(powheader)
state_update(state, powheader) == [state EXCEPT !.absorbed = powheader]

\* Byte pos of the digest of group counter g: BLAKE2b stands for a fixed function of
\* (personalization, absorbed powheader, counter).  The powheader names which one:
\*   "zero"    every digest byte is 0;
\*   "low"     all bytes of a leaf are 0 but its last, which is the leaf's index mod 2;
\*   "bits"    byte j of leaf i is bit j of i (0 from bit 8 on);
\*   "tail"    all bytes of a leaf are 0 but its last, which is 1.
Blake2bByte(state, g, pos) ==
    LET slice == state.n \div 8
        i == g * (512 \div state.n) + (pos \div slice)
        j == pos % slice
    IN  CASE state.absorbed = "zero" -> 0
          [] state.absorbed = "low" -> IF j = slice - 1 THEN i % 2 ELSE 0
          [] state.absorbed = "bits" -> IF j < 8 THEN (i \div (2 ^ j)) % 2 ELSE 0
          [] OTHER -> IF j = slice - 1 THEN 1 ELSE 0

\* The i-th group digest: state.clone().update(i.to_le_bytes()).finalize()
generate_hash(base_state, i) ==
    [pos \in 1..base_state.digest_len |-> Blake2bByte(base_state, i, pos - 1)]

\* (acc_value << 8) | b on a u32
ShiftInByte(acc, b) ==
    U32((acc.hi % 256) * 256 + (acc.lo \div 256), (acc.lo % 256) * 256 + b)

\* ((acc >> s) & 0xff) for 0 <= s < 32
ShrLowByte(acc, s) ==
    IF s >= 16 THEN (acc.hi \div (2 ^ (s - 16))) % 256
    ELSE ((acc.lo \div (2 ^ s)) + (acc.hi % (2 ^ s)) * (2 ^ (16 - s))) % 256

\* ((bit_len_mask >> (8 * m)) & 0xFF) with bit_len_mask = (1 << bit_len) - 1
MaskByte(bit_len, m) ==
    IF bit_len - 8 * m >= 8 THEN 255
    ELSE IF bit_len - 8 * m <= 0 THEN 0
    ELSE (2 ^ (bit_len - 8 * m)) - 1

\* x & m for a mask m = 2^t - 1
AndMask(x, m) == x % (m + 1)

\* vout[j + x] for x in byte_pad..out_width of one completed digit, then j += out_width:
\* the bytes appended to vout (which grows by out_width bytes per digit).
expand_digit(acc_value, acc_bits, bit_len, byte_pad, out_width) ==
    [x \in 1..out_width |->
        IF x - 1 < byte_pad THEN 0
        ELSE AndMask(ShrLowByte(acc_value, acc_bits + 8 * (out_width - (x - 1) - 1)),
                     MaskByte(bit_len, out_width - (x - 1) - 1))]

\* One iteration of the loop `for b in vin` of expand_array.
expand_step(st, b, bit_len, byte_pad, out_width) ==
    Bind(ShiftInByte(st.acc_value, b), LAMBDA acc_value :
    LET acc_bits == st.acc_bits + 8
    IN  IF acc_bits >= bit_len
        THEN [acc_value |-> acc_value, acc_bits |-> acc_bits - bit_len,
              vout |-> st.vout \o expand_digit(acc_value, acc_bits - bit_len,
                                               bit_len, byte_pad, out_width)]
        ELSE [acc_value |-> acc_value, acc_bits |-> acc_bits, vout |-> st.vout])

\* Expand a compact big-endian bitstring into fixed-width, byte-padded chunks.
\* Bytes of vout that no digit reaches stay 0 (vec![0; out_len]).
expand_array(input, bit_len, byte_pad) == Bind(input, LAMBDA vin :
    LET out_width == DivCeil8(bit_len) + byte_pad
        out_len == (8 * out_width * Len(vin)) \div bit_len
        st0 == [acc_value |-> U32(0, 0), acc_bits |-> 0, vout |-> <<>>]
    IN  IF bit_len < 8 THEN Panic("assertion failed: bit_len >= 8")
        ELSE IF 32 < 7 + bit_len
            THEN Panic("assertion failed: (u32::BITS as usize) >= 7 + bit_len")
        ELSE IF out_len = Len(vin) THEN Ok([bytes |-> vin])
        ELSE Bind(ForLoop(LAMBDA st, x : expand_step(st, At(vin, x), bit_len, byte_pad, out_width),
                          0, Len(vin), st0),
                  LAMBDA done :
                    Ok([bytes |-> done.vout \o [x \in 1..(out_len - Len(done.vout)) |-> 0]])))

\* The chunk read as a little-endian u32.
be_chunk_le(bytes, c) ==
    ((At(bytes, 4 * c + 3) * 256 + At(bytes, 4 * c + 2)) * 256 + At(bytes, 4 * c + 1)) * 256
        + At(bytes, 4 * c)

\* u32::from_be_bytes of chunk c (0-based) of the expanded bytes; indices stay below 2^31
\* because the digits are at most 25 bits wide.
be_chunk(bytes, c) ==
    ((At(bytes, 4 * c) * 256 + At(bytes, 4 * c + 1)) * 256 + At(bytes, 4 * c + 2)) * 256
        + At(bytes, 4 * c + 3)

\* Decode the minimal solution into big-endian u32 indices; None is Err("None").
\* The length expression is evaluated in usize; the model covers k < 24.
indices_from_minimal(p, solution) == Bind(solution, LAMBDA minimal :
    LET c_bit_len == collision_bit_length(p)
        digit_bytes == DivCeil8(c_bit_len + 1)
        byte_pad == 4 - digit_bytes
    IN  IF Len(minimal) # ((2 ^ p.k) * (c_bit_len + 1)) \div 8 THEN Err(EqErr("None"))
        ELSE IF digit_bytes > 4 THEN Panic("attempt to subtract with overflow")
        ELSE Bind(expand_array(minimal, c_bit_len + 1, byte_pad), LAMBDA expanded :
        IF IsPanic(expanded) THEN expanded
        ELSE IF Len(expanded.val.bytes) % 4 # 0 THEN Err(EqErr("None"))
        ELSE Ok([indices |-> Vec([c \in 1..(Len(expanded.val.bytes) \div 4) |->
                                     be_chunk(expanded.val.bytes, c - 1)],
                                 Len(expanded.val.bytes) \div 4)])))

\* x ^ y on bytes
RECURSIVE Xor(_, _)
Xor(x, y) ==
    IF x = 0 THEN y
    ELSE IF y = 0 THEN x
    ELSE ((x + y) % 2) + 2 * Xor(x \div 2, y \div 2)

MinOf(a, b) == IF a < b THEN a ELSE b

\* Node::new: the leaf of index i.
Node_new(p, state, i) ==
    LET iph == indices_per_hash_output(p)
        hash == generate_hash(state, i \div iph)
        start == ((i % iph) * p.n) \div 8
        end == start + p.n \div 8
        slice == SubSeq(hash, start + 1, end)
    IN  IF iph = 0 THEN Panic("attempt to divide by zero")
        ELSE Bind(expand_array(slice, collision_bit_length(p), 0), LAMBDA expanded :
                IF IsPanic(expanded) THEN expanded
                ELSE Ok([hash |-> expanded.val.bytes, indices |-> <<i>>]))

\* Node::indices_before
indices_before(self, other) == self.indices[1] < other.indices[1]

\* A combination that always puts the right child's indices first.
from_children_right_first(left, right, trim) == Bind(<<left, right>>, LAMBDA lr :
    LET a == lr[1]
        b == lr[2]
        zipped == MinOf(Len(a.hash), Len(b.hash))
        hash == SubSeq([x \in 1..zipped |-> Xor(a.hash[x], b.hash[x])], trim + 1, zipped)
    IN  [hash |-> hash, indices |-> b.indices \o a.indices])

\* Node::from_children
from_children(left, right, trim) == Bind(<<left, right>>, LAMBDA lr :
    LET a == lr[1]
        b == lr[2]
        zipped == MinOf(Len(a.hash), Len(b.hash))
        hash == SubSeq([x \in 1..zipped |-> Xor(a.hash[x], b.hash[x])], trim + 1, zipped)
        indices == IF indices_before(a, b) THEN a.indices \o b.indices
                   ELSE b.indices \o a.indices
    IN  [hash |-> hash, indices |-> indices])

\* A zero test that looks at the first byte only.
is_zero_first_byte(self, len) == len = 0 \/ self.hash = <<>> \/ self.hash[1] = 0

\* Node::is_zero
is_zero(self, len) == \A x \in 1..MinOf(len, Len(self.hash)) : self.hash[x] = 0

has_collision(a, b, len) ==
    \A x \in 1..MinOf(len, MinOf(Len(a.hash), Len(b.hash))) : a.hash[x] = b.hash[x]

\* distinct_indices that compares only the first index of each side.
distinct_indices_first_only(a, b) == a.indices[1] # b.indices[1]

distinct_indices(a, b) ==
    \A i \in 1..Len(a.indices) : \A j \in 1..Len(b.indices) : a.indices[i] # b.indices[j]

\* validate_subtrees that checks the ordering before the collision.
validate_subtrees_order_first(p, left, right) == Bind(<<left, right>>, LAMBDA lr :
    LET a == lr[1]
        b == lr[2]
    IN  IF indices_before(b, a) THEN Err(EqErr("OutOfOrder"))
        ELSE IF ~has_collision(a, b, collision_byte_length(p)) THEN Err(EqErr("Collision"))
        ELSE IF ~distinct_indices(a, b) THEN Err(EqErr("DuplicateIdxs"))
        ELSE Ok(Unit))

validate_subtrees(p, left, right) == Bind(<<left, right>>, LAMBDA lr :
    LET a == lr[1]
        b == lr[2]
    IN  IF ~has_collision(a, b, collision_byte_length(p)) THEN Err(EqErr("Collision"))
        ELSE IF indices_before(b, a) THEN Err(EqErr("OutOfOrder"))
        ELSE IF ~distinct_indices(a, b) THEN Err(EqErr("DuplicateIdxs"))
        ELSE Ok(Unit))

RECURSIVE tree_validator(_, _, _)
tree_validator(p, state, slice) == Bind(slice, LAMBDA indices :
    IF Len(indices) > 1
    THEN LET end == Len(indices)
             mid == end \div 2
         IN  Bind(tree_validator(p, state, SubSeq(indices, 1, mid)), LAMBDA a :
             IF ~IsOk(a) THEN a
             ELSE Bind(tree_validator(p, state, SubSeq(indices, mid + 1, end)), LAMBDA b :
             IF ~IsOk(b) THEN b
             ELSE Bind(validate_subtrees(p, a.val, b.val), LAMBDA v :
             IF ~IsOk(v) THEN v
             ELSE Ok(from_children(a.val, b.val, collision_byte_length(p))))))
    ELSE IF Len(indices) = 0 THEN Panic("index out of bounds")
    ELSE Node_new(p, state, indices[1]))

verify_equihash_solution_with_params(n, k, powheader, solution) ==
    LET ps == Params_new(n, k)
        p == CHOOSE q \in ps : TRUE
        init == initialise_state(p.n, p.k, hash_output(p))
        state == state_update(init.val, powheader)
    IN  IF ps = {} THEN Err(EqErr("InvalidParams"))
        ELSE Bind(indices_from_minimal(p, solution), LAMBDA indices :
        IF IsPanic(indices) THEN indices
        ELSE IF IsErr(indices) THEN Err(EqErr("InvalidParams"))
        ELSE IF IsPanic(init) THEN init
        ELSE Bind(tree_validator(p, state, indices.val.indices), LAMBDA root :
        IF ~IsOk(root) THEN root
        ELSE IF is_zero(root.val, collision_byte_length(p)) THEN Ok(Unit)
        ELSE Err(EqErr("NonZeroRootHash"))))

\* The default Zcash parameters (n = 200, k = 9).
verify_equihash_solution(powheader, solution) ==
    verify_equihash_solution_with_params(200, 9, powheader, solution)

\* tests/equihash_vectors.rs, compress_array: the bits of the digits, big-endian, bit_len
\* per digit, packed into bytes: byte b (0-based) holds bits 8b..8b+7 of the stream.
StreamBit(digits, bit_len, t) ==
    (digits[(t \div bit_len) + 1] \div (2 ^ (bit_len - 1 - (t % bit_len)))) % 2

compress_byte(digits, bit_len, b) ==
    LET bit(x) == StreamBit(digits, bit_len, 8 * b + x)
    IN  128 * bit(0) + 64 * bit(1) + 32 * bit(2) + 16 * bit(3)
        + 8 * bit(4) + 4 * bit(5) + 2 * bit(6) + bit(7)

\* tests/equihash_vectors.rs, minimal_from_indices
minimal_from_indices(n, k, index_list) == Bind(index_list, LAMBDA indices :
    LET bit_len == n \div (k + 1) + 1
        out_len == (bit_len * Len(indices)) \div 8
    IN  Vec([b \in 1..out_len |-> compress_byte(indices, bit_len, b - 1)], out_len))

----------------------------------------------------------------------------
(* lib.rs: verify_pow_with_context *)

PowErr(stage, e) == [stage |-> stage, err |-> e]

\* The fields of a BlockHeader that verification reads.  nonce stands for the 140
\* powheader bytes (it names the BLAKE2b digest function, see Blake2bByte); hash is
\* header.hash().0, the SHA-256d of the serialized header; solution is the position of
\* the solution bytes in SolutionPool.
BlockHeader(time, bits, hash, nonce, solution) ==
    [time |-> time, bits |-> bits, hash |-> hash, nonce |-> nonce, solution |-> solution]

\* The powheader rebuilt from the header's fields.
powheader_of(header) == header.nonce

\* The 512 indices 0..511 in order, in minimal encoding: a solution when all leaf
\* hashes are equal.
GoodSolution == minimal_from_indices(200, 9, [i \in 1..512 |-> i - 1])
\* The same with the last index repeating its sibling.
DupSolution == minimal_from_indices(200, 9, [i \in 1..512 |-> IF i = 512 THEN 510 ELSE i - 1])

\* The solutions headers carry.
SolutionPool == <<GoodSolution, DupSolution>>
solution_of(header) == SolutionPool[header.solution]

\* verify_equihash_solution tabulated once for the solutions of the pool under the
\* powheader "zero"; any other pair is computed on demand.
EquihashTable ==
    << verify_equihash_solution("zero", SolutionPool[1]),
       verify_equihash_solution("zero", SolutionPool[2]) >>

equihash_of(header) ==
    IF powheader_of(header) = "zero" THEN EquihashTable[header.solution]
    ELSE verify_equihash_solution(powheader_of(header), solution_of(header))

\* verify_pow_with_context that appends to the context before the contextual check.
verify_pow_with_context_push_early(header, height, c, bld) ==
    Bind(equihash_of(header), LAMBDA eq :
    IF IsPanic(eq) THEN [result |-> eq, ctx |-> c]
    ELSE IF IsErr(eq) THEN [result |-> Err(PowErr("Equihash", eq.val)), ctx |-> c]
    ELSE Bind(filter_verify_difficulty(header.hash, header.bits), LAMBDA flt :
    IF IsErr(flt) THEN [result |-> Err(PowErr("Difficulty", flt.val)), ctx |-> c]
    ELSE Bind(verify_difficulty(c, height, header.bits, bld), LAMBDA cd :
    LET pushed == push_header(c, height, header.time, header.bits)
    IN  IF IsPanic(cd) THEN [result |-> cd, ctx |-> pushed]
        ELSE IF IsErr(cd)
            THEN [result |-> Err(PowErr("ContextDifficulty", cd.val)), ctx |-> pushed]
        ELSE [result |-> Ok(Unit), ctx |-> pushed])))

\* verify_pow_with_context that runs the difficulty filter before Equihash.
verify_pow_with_context_filter_first(header, height, c, bld) ==
    Bind(filter_verify_difficulty(header.hash, header.bits), LAMBDA flt :
    IF IsErr(flt) THEN [result |-> Err(PowErr("Difficulty", flt.val)), ctx |-> c]
    ELSE Bind(equihash_of(header), LAMBDA eq :
    IF IsPanic(eq) THEN [result |-> eq, ctx |-> c]
    ELSE IF IsErr(eq) THEN [result |-> Err(PowErr("Equihash", eq.val)), ctx |-> c]
    ELSE Bind(verify_difficulty(c, height, header.bits, bld), LAMBDA cd :
    IF IsPanic(cd) THEN [result |-> cd, ctx |-> c]
    ELSE IF IsErr(cd)
        THEN [result |-> Err(PowErr("ContextDifficulty", cd.val)), ctx |-> c]
    ELSE [result |-> Ok(Unit),
          ctx |-> push_header(c, height, header.time, header.bits)])))

\* verify_pow_with_context: the result and the context it leaves behind.
verify_pow_with_context(header, height, c, bld) ==
    Bind(equihash_of(header), LAMBDA eq :
    IF IsPanic(eq) THEN [result |-> eq, ctx |-> c]
    ELSE IF IsErr(eq) THEN [result |-> Err(PowErr("Equihash", eq.val)), ctx |-> c]
    ELSE Bind(filter_verify_difficulty(header.hash, header.bits), LAMBDA flt :
    IF IsErr(flt) THEN [result |-> Err(PowErr("Difficulty", flt.val)), ctx |-> c]
    ELSE Bind(verify_difficulty(c, height, header.bits, bld), LAMBDA cd :
    IF IsPanic(cd) THEN [result |-> cd, ctx |-> c]
    ELSE IF IsErr(cd)
        THEN [result |-> Err(PowErr("ContextDifficulty", cd.val)), ctx |-> c]
    ELSE [result |-> Ok(Unit),
          ctx |-> push_header(c, height, header.time, header.bits)])))

----------------------------------------------------------------------------
(* The difficulty context under its public operations:                     *)
(* DifficultyContext::new, push_header, verify_pow_with_context.            *)

\* No header.
NoHeader == BlockHeader(0, U32(0, 0), ZeroTarget, "none", 1)

\* sync_chain is not running and the store is empty.
SyncIdle ==
    /\ store = <<>>
    /\ pc = "idle"
    /\ cur_height = U32(0, 0)
    /\ cur_header = NoHeader

\* Bounds of the exploration.
MaxPushes == 30         \* headers appended to one context
MaxOdd == 1             \* pushes whose arguments are not the next header of the chain
OddFrom == 26           \* ... which are made after this many pushes
FirstTime == 1700000000 \* nTime of the first header pushed
Spacing == 100          \* seconds between consecutive chain headers

\* 0x1f07ffff, the compact form of the PoW limit, and a neighbour.
ChainBits == U32(7943, 65535)
OtherBits == U32(7943, 65534)
HashOnes == bytes_from([i \in 0..31 |-> 255], 32)

\* The tip a context is created at: so far below the largest u32 that the last but
\* one push of a chain ends at tip_height = u32::MAX.
StartTip == U32(65535, 65535 - (MaxPushes - 1))

\* nTime of the next chain header.
NextTime(c) == IF c.times = <<>> THEN FirstTime ELSE c.times[Len(c.times)] + Spacing

\* Headers offered to verify_pow_with_context in context c.
Headers(c) ==
    { BlockHeader(NextTime(c), b, h, "zero", s) :
        b \in {ChainBits, OtherBits}, h \in {ZeroTarget, HashOnes},
        s \in 1..Len(SolutionPool) }

\* The header that continues the chain.
ChainHeader(c) == BlockHeader(NextTime(c), ChainBits, ZeroTarget, "zero", 1)

\* The calls offered: every header at height tip + 1 (wrapping), and the chain header
\* at the tip's own height.
Calls(c) ==
    { <<header, U32WrappingInc(c.tip_height)>> : header \in Headers(c) }
        \cup { <<ChainHeader(c), c.tip_height>> }

Init ==
    /\ build \in {"debug", "release"}
    /\ ctx = DifficultyContext_new(StartTip)
    /\ op = [name |-> "new"]
    /\ res = Ok(Unit)
    /\ odd = 0
    /\ pushes = 0
    /\ SyncIdle

\* ctx.push_header with the next header of the chain.
PushNext ==
    /\ ~IsPanic(res)
    /\ pushes < MaxPushes
    /\ ctx.tip_height # U32_MAX
    /\ ctx' = push_header(ctx, U32WrappingInc(ctx.tip_height), NextTime(ctx), ChainBits)
    /\ op' = [name |-> "push_header"]
    /\ res' = Ok(Unit)
    /\ pushes' = pushes + 1
    /\ UNCHANGED <<build, odd>>
    /\ UNCHANGED syncvars

\* ctx.push_header with other arguments: the caller is free to pass any.
PushOdd ==
    /\ ~IsPanic(res)
    /\ pushes < MaxPushes
    /\ odd < MaxOdd
    /\ pushes >= OddFrom
    /\ \E a \in { <<ctx.tip_height, NextTime(ctx) - Spacing, OtherBits>>,
                   <<U32(0, 7), 0, U32(8192, 8)>> } :
            ctx' = push_header(ctx, a[1], a[2], a[3])
    /\ op' = [name |-> "push_header"]
    /\ res' = Ok(Unit)
    /\ pushes' = pushes + 1
    /\ odd' = odd + 1
    /\ UNCHANGED build
    /\ UNCHANGED syncvars

\* verify_pow_with_context(&header, height, &mut ctx)
VerifyPow ==
    /\ ~IsPanic(res)
    /\ \E call \in Calls(ctx) :
        \E r \in {verify_pow_with_context(call[1], call[2], ctx, build)} :
            /\ IsOk(r.result) => pushes < MaxPushes
            /\ ctx' = r.ctx
            /\ op' = [name |-> "verify_pow_with_context", header |-> call[1],
                      height |-> call[2]]
            /\ res' = r.result
            /\ pushes' = IF IsOk(r.result) THEN pushes + 1 ELSE pushes
    /\ UNCHANGED <<build, odd>>
    /\ UNCHANGED syncvars

Next == PushNext \/ PushOdd \/ VerifyPow

Spec == Init /\ [][Next]_vars

\* The context holds the full window behind expected_nbits.
FullContext(c) ==
    Len(c.times) >= POW_MEDIAN_BLOCK_SPAN + POW_AVERAGING_WINDOW
    /\ Len(c.bits) >= POW_AVERAGING_WINDOW

\* C1: a call of verify_pow_with_context that returns an error (Equihash, Difficulty
\* or ContextDifficulty) leaves ctx exactly as it was; a call that returns Ok leaves
\* ctx as push_header(height, header.time, header.bits) makes it: one entry appended.
C1_FailureLeavesCtx ==
    [][op'.name = "verify_pow_with_context" =>
        /\ IsErr(res') => ctx' = ctx
        /\ IsOk(res') =>
              /\ ctx' = push_header(ctx, op'.height, op'.header.time, op'.header.bits)
              /\ ctx'.tip_height = op'.height
              /\ ctx'.times[Len(ctx'.times)] = op'.header.time
              /\ ctx'.bits[Len(ctx'.bits)] = op'.header.bits
              /\ Len(ctx'.times) = (IF Len(ctx.times) < 28 THEN Len(ctx.times) + 1 ELSE 28)
    ]_vars

\* C1 witness: a header passed Equihash and the filter and failed the contextual
\* check on a full context.
C1_Witness ==
    /\ op.name = "verify_pow_with_context"
    /\ IsErr(res)
    /\ res.val.stage = "ContextDifficulty"
    /\ FullContext(ctx)

\* C2: in every reachable state of a context created empty and changed only by
\* push_header (called directly with any arguments, or by a successful verification),
\* times holds at most 28 entries and bits at most 17.
C2_ContextBounded == Len(ctx.times) <= 28 /\ Len(ctx.bits) <= 17

\* C2 witness: more than 28 headers were pushed, one of them with arguments that do
\* not continue the chain, and both windows are full.
C2_Witness ==
    pushes > 28 /\ odd > 0 /\ Len(ctx.times) = 28 /\ Len(ctx.bits) = 17

\* C4: verify_pow_with_context reports the first failing check in the order Equihash,
\* difficulty filter, contextual difficulty: Equihash whenever Equihash fails;
\* Difficulty exactly when Equihash passed and the filter failed; ContextDifficulty
\* only when both passed; and ctx changes only when all three passed.
C4_CheckOrder ==
    [][op'.name = "verify_pow_with_context" =>
        LET eq == equihash_of(op'.header)
            flt == filter_verify_difficulty(op'.header.hash, op'.header.bits)
            cd == verify_difficulty(ctx, op'.height, op'.header.bits, build)
        IN  /\ IsErr(eq) => res' = Err(PowErr("Equihash", eq.val))
            /\ (IsOk(eq) /\ IsErr(flt)) => res' = Err(PowErr("Difficulty", flt.val))
            /\ (IsErr(res') /\ res'.val.stage = "Difficulty") => (IsOk(eq) /\ IsErr(flt))
            /\ (IsErr(res') /\ res'.val.stage = "ContextDifficulty") =>
                  (IsOk(eq) /\ IsOk(flt) /\ res' = Err(PowErr("ContextDifficulty", cd.val)))
            /\ (ctx' # ctx \/ IsOk(res')) => (IsOk(eq) /\ IsOk(flt) /\ IsOk(cd))
    ]_vars

\* C4 witness: a header that fails all three checks was reported as an Equihash error.
C4_Witness ==
    /\ op.name = "verify_pow_with_context"
    /\ IsErr(res)
    /\ res.val.stage = "Equihash"
    /\ FullContext(ctx)
    /\ IsErr(filter_verify_difficulty(op.header.hash, op.header.bits))
    /\ IsErr(verify_difficulty(ctx, op.height, op.header.bits, build))

\* Heights expected_nbits is asked about in context c.
AskedHeights(c) == {U32WrappingInc(c.tip_height), c.tip_height, U32(0, 0), U32(0, 5)}

\* C6: for every context and next_height, expected_nbits returns InsufficientContext
\* when times has fewer than 28 or bits fewer than 17 entries; otherwise
\* HeightMismatch{expected: tip_height + 1, found: next_height} when next_height is
\* not tip_height + 1 (no u32 is, when tip_height = 2^32 - 1); otherwise Ok.  It
\* never aborts.
C6_ExpectedNbitsTotal ==
    \A nh \in AskedHeights(ctx) :
        LET r == expected_nbits(ctx, nh, build)
            is_next == ctx.tip_height # U32_MAX /\ nh = U32WrappingInc(ctx.tip_height)
        IN  /\ ~IsPanic(r)
            /\ ~FullContext(ctx) => r = Err(DiffErr("InsufficientContext"))
            /\ (FullContext(ctx) /\ ~is_next) =>
                  /\ IsErr(r)
                  /\ r.val.kind = "HeightMismatch"
                  /\ r.val.found = nh
                  /\ ctx.tip_height # U32_MAX => r.val.expected = U32WrappingInc(ctx.tip_height)
            /\ (FullContext(ctx) /\ is_next) => IsOk(r)

\* nBits that verify_difficulty is asked about.
AskedBits == {ChainBits, OtherBits, U32(7942, 65535), U32(0, 0)}

\* C7: when expected_nbits(ctx, h) = Ok(e), verify_difficulty(ctx, h, b) is Ok if
\* b = e and BitsMismatch{expected: e, found: b} otherwise; when expected_nbits
\* fails, verify_difficulty returns its error unchanged.
C7_VerifyDifficulty ==
    \A h \in AskedHeights(ctx), b \in AskedBits :
        LET e == expected_nbits(ctx, h, build)
            v == verify_difficulty(ctx, h, b, build)
        IN  IF IsOk(e)
            THEN IF b = e.val THEN v = Ok(Unit)
                 ELSE v = Err([kind |-> "BitsMismatch", expected |-> e.val, found |-> b])
            ELSE v = e

\* C7 witness: on a full context a verification ended in BitsMismatch while another
\* nBits value is the expected one.
C7_Witness ==
    /\ op.name = "verify_pow_with_context"
    /\ IsErr(res)
    /\ res.val.stage = "ContextDifficulty"
    /\ res.val.err.kind = "BitsMismatch"
    /\ res.val.err.found = OtherBits
    /\ verify_difficulty(ctx, op.height, ChainBits, build) = Ok(Unit)

----------------------------------------------------------------------------
(* The difficulty filter on its own: verify_difficulty_filter over hashes and  *)
(* nBits values around its boundaries.                                         *)

\* The 32-byte array that is zero but for value v at (0-based) byte i.
OneByte(i, v) == Vec([x \in 1..32 |-> IF x = i + 1 THEN v ELSE 0], 32)

\* nBits values: zero; the PoW limit and its neighbours on both sides; mantissas with
\* the sign bit; exponents that shift mantissa bytes out at the bottom (1, 2) and at
\* the top (32, 33, 34, 255); ordinary small and large targets.
FilterBits ==
    { U32(0, 0), U32(7943, 65535), U32(7943, 65534), U32(7944, 0), U32(7936, 1),
      U32(8064, 0), U32(8191, 65535), U32(256, 256), U32(511, 65535), U32(768, 1),
      U32(1024, 513), U32(8192, 8), U32(8192, 65535), U32(8449, 7), U32(8449, 0),
      U32(8704, 1), U32(65407, 65535), U32(7424, 65535), U32(7680, 32768),
      U32(8071, 65535), U32(7552, 65535) }

\* Hashes tried against nBits n: the decoded target itself, the target plus one, and
\* arrays with one non-zero byte at either end of the array and near the limit's top.
FilterHashes(n) ==
    { ZeroTarget, HashOnes, POW_LIMIT_LE, target_from_nbits(n),
      add_target(target_from_nbits(n), OneByte(0, 1)) }
      \cup { OneByte(i, v) : i \in {0, 1, 28, 29, 30, 31}, v \in {1, 7, 8, 255} }

\* A call of verify_difficulty_filter with its arguments, not yet returned.
InitFilter ==
    /\ build = "release"
    /\ ctx = DifficultyContext_new(U32(0, 0))
    /\ \E n \in FilterBits : \E h \in FilterHashes(n) :
            op = [name |-> "verify_difficulty_filter", hash |-> h, bits |-> n]
    /\ res = Pending
    /\ odd = 0
    /\ pushes = 0
    /\ SyncIdle

\* verify_difficulty_filter(&header_hash, n_bits) returns.
FilterCall ==
    /\ res = Pending
    /\ res' = verify_difficulty_filter(op.hash, op.bits)
    /\ UNCHANGED <<build, ctx, op, odd, pushes>>
    /\ UNCHANGED syncvars

NextFilter == FilterCall

SpecFilter == InitFilter /\ [][NextFilter]_vars

\* a > b as unsigned 256-bit integers given least significant byte first: they differ,
\* and at the most significant byte where they differ a is larger.
Above(a, b) == \E i \in 1..32 : a[i] > b[i] /\ \A j \in (i + 1)..32 : a[j] = b[j]

\* Byte i (0-based) of 2^243 - 1.
LimitByte(i) ==
    IF 8 * (i + 1) <= 243 THEN 255 ELSE IF 8 * i < 243 THEN 2 ^ (243 - 8 * i) - 1 ELSE 0

\* C5: verify_difficulty_filter classifies, with target = target_from_nbits(nbits) and
\* unsigned 256-bit comparison: InvalidTarget if target = 0; else TargetAbovePowLimit
\* if target > 2^243 - 1; else HashAboveTarget if hash > target; else Ok.  So
\* hash = target is Ok and nbits = 0 is InvalidTarget.
C5_FilterClassification ==
    (op.name = "verify_difficulty_filter" /\ res # Pending) =>
        LET target == target_from_nbits(op.bits)
            limit == [i \in 1..32 |-> LimitByte(i - 1)]
        IN  /\ res = (IF \A i \in 1..32 : target[i] = 0 THEN Err(DiffErr("InvalidTarget"))
                      ELSE IF Above(target, limit) THEN Err(DiffErr("TargetAbovePowLimit"))
                      ELSE IF Above(op.hash, target) THEN Err(DiffErr("HashAboveTarget"))
                      ELSE Ok(Unit))
            /\ op.bits = U32(0, 0) => res = Err(DiffErr("InvalidTarget"))

\* C5 witness: a non-zero hash equal to the target of its nBits was accepted.
C5_Witness ==
    /\ op.name = "verify_difficulty_filter"
    /\ op.hash = target_from_nbits(op.bits)
    /\ op.hash # ZeroTarget
    /\ res = Ok(Unit)

----------------------------------------------------------------------------
(* The Equihash verifier on its own: verify_equihash_solution_with_params over *)
(* parameters, digest functions and solutions.                                 *)

\* s with its element at position pos replaced by v.
Replace(s, pos, v) == Vec([x \in 1..Len(s) |-> IF x = pos THEN v ELSE s[x]], Len(s))

\* Index lists for (n, k) = (32, 3): 8 indices of 9 bits.  The bases are 0..7, the even
\* numbers 0..14 and 0..7 with each pair swapped; every base is also tried with one
\* index replaced.
SmallBases == { <<0, 1, 2, 3, 4, 5, 6, 7>>, <<0, 2, 4, 6, 8, 10, 12, 14>>,
                <<1, 0, 3, 2, 5, 4, 7, 6>> }
SmallLists ==
    SmallBases \cup
    { Replace(base, pos, v) : base \in SmallBases, pos \in 1..8, v \in {0, 1, 3, 6, 9, 511} }

\* Index lists for (n, k) = (200, 9): 512 indices of 21 bits; 0..511 and that list with
\* one index replaced, among others by the largest 21-bit values, even and odd.
LargeLists ==
    { [i \in 1..512 |-> i - 1] } \cup
    { [i \in 1..512 |-> IF i = pos THEN v ELSE i - 1] :
        pos \in {3, 512}, v \in {1, 510, 2097150, 2097151} }

\* (n, k) pairs tried with an all-zero solution: valid ones, ones Params::new rejects,
\* and ones whose collision length is below 8 bits or above 24.
ParamCases ==
    { <<200, 9>>, <<32, 3>>, <<48, 5>>, <<64, 3>>, <<96, 3>>, <<200, 2>>, <<201, 9>>,
      <<8, 8>>, <<200, 8>>, <<0, 3>>, <<12, 3>>, <<8, 3>>, <<16, 3>>, <<24, 3>>,
      <<104, 3>>, <<520, 4>> }

\* The solution length the verifier asks for: 2^k * (n / (k + 1) + 1) / 8.
MinimalLen(n, k) == ((2 ^ k) * (n \div (k + 1) + 1)) \div 8

\* An all-zero byte string.
Zeros(len) == Vec([x \in 1..len |-> 0], len)

EquihashCalls ==
    { [n |-> 32, k |-> 3, powheader |-> pw, solution |-> minimal_from_indices(32, 3, l)] :
        pw \in {"zero", "bits", "low"}, l \in SmallLists }
    \cup
    { [n |-> 200, k |-> 9, powheader |-> pw, solution |-> minimal_from_indices(200, 9, l)] :
        pw \in {"zero", "low"}, l \in LargeLists }
    \cup
    { [n |-> nk[1], k |-> nk[2], powheader |-> "zero",
       solution |-> Zeros(MinimalLen(nk[1], nk[2]) + d)] : nk \in ParamCases, d \in {0, 1} }

\* A call of verify_equihash_solution_with_params with its arguments, not yet returned.
InitEquihash ==
    /\ build = "release"
    /\ ctx = DifficultyContext_new(U32(0, 0))
    /\ \E c \in EquihashCalls :
            op = [name |-> "verify_equihash_solution_with_params", n |-> c.n, k |-> c.k,
                  powheader |-> c.powheader, solution |-> c.solution]
    /\ res = Pending
    /\ odd = 0
    /\ pushes = 0
    /\ SyncIdle

\* verify_equihash_solution_with_params(n, k, powheader, solution) returns.
EquihashCall ==
    /\ res = Pending
    /\ res' = verify_equihash_solution_with_params(op.n, op.k, op.powheader, op.solution)
    /\ UNCHANGED <<build, ctx, op, odd, pushes>>
    /\ UNCHANGED syncvars

NextEquihash == EquihashCall

SpecEquihash == InitEquihash /\ [][NextEquihash]_vars

\* The indices a call's solution decodes to, or <<>> where the parameters are rejected or
\* the decoding does not return a list.
DecodedIndices(call) ==
    LET ps == Params_new(call.n, call.k)
    IN  IF ps = {} THEN <<>>
        ELSE Bind(indices_from_minimal(CHOOSE q \in ps : TRUE, call.solution), LAMBDA d :
             IF IsOk(d) THEN d.val.indices ELSE <<>>)

\* The condition under which the verifier is to answer InvalidParams.
InvalidParamsCase(call) ==
    \/ call.n % 8 # 0
    \/ call.k < 3
    \/ call.k >= call.n
    \/ call.n % (call.k + 1) # 0
    \/ Len(call.solution) # MinimalLen(call.n, call.k)

EquihashKinds == {"InvalidParams", "Collision", "OutOfOrder", "DuplicateIdxs", "NonZeroRootHash"}

\* C8: verify_equihash_solution_with_params always returns Ok or Err(kind) with kind one
\* of InvalidParams, Collision, OutOfOrder, DuplicateIdxs, NonZeroRootHash, never aborts,
\* and answers InvalidParams exactly when n mod 8 # 0, or k < 3, or k >= n, or
\* n mod (k + 1) # 0, or the solution length differs from 2^k * (n / (k + 1) + 1) / 8.
C8_EquihashTotal ==
    (op.name = "verify_equihash_solution_with_params" /\ res # Pending) =>
        /\ res \in {Ok(Unit)} \cup {Err(EqErr(kind)) : kind \in EquihashKinds}
        /\ (res = Err(EqErr("InvalidParams"))) <=> InvalidParamsCase(op)

\* The verdict of the sibling checks on children a (left) and b (right), in the order
\* collision, ordering, distinctness.
SiblingError(p, a, b) ==
    IF \E x \in 1..collision_byte_length(p) : a.hash[x] # b.hash[x] THEN "Collision"
    ELSE IF b.indices[1] < a.indices[1] THEN "OutOfOrder"
    ELSE IF \E i \in 1..Len(a.indices), j \in 1..Len(b.indices) : a.indices[i] = b.indices[j]
         THEN "DuplicateIdxs"
    ELSE "none"

\* The merge tree over idx visited in left-first post-order: the node at its root and the
\* first sibling error met ("none" where every check passed).
RECURSIVE PostOrder(_, _, _)
PostOrder(p, state, idx) ==
    IF Len(idx) = 1 THEN [err |-> "none", node |-> Node_new(p, state, idx[1]).val]
    ELSE Bind(PostOrder(p, state, SubSeq(idx, 1, Len(idx) \div 2)), LAMBDA l :
         Bind(PostOrder(p, state, SubSeq(idx, Len(idx) \div 2 + 1, Len(idx))), LAMBDA r :
            [err  |-> IF l.err # "none" THEN l.err
                      ELSE IF r.err # "none" THEN r.err
                      ELSE SiblingError(p, l.node, r.node),
             node |-> from_children(l.node, r.node, collision_byte_length(p))]))

\* C9: at every internal node the sibling checks are applied in the order collision,
\* ordering (b.indices[0] < a.indices[0]), distinctness, so that equal first indices are
\* reported as DuplicateIdxs, and the verifier's error is the first one met in left-first
\* post-order traversal of the merge tree.
C9_SiblingCheckOrder ==
    (op.name = "verify_equihash_solution_with_params" /\ res # Pending /\ ~IsPanic(res)
        /\ DecodedIndices(op) # <<>>) =>
        LET p == CHOOSE q \in Params_new(op.n, op.k) : TRUE
            state == state_update(initialise_state(p.n, p.k, hash_output(p)).val, op.powheader)
        IN  Bind(PostOrder(p, state, DecodedIndices(op)), LAMBDA t :
                IF t.err # "none" THEN res = Err(EqErr(t.err))
                ELSE res \in {Ok(Unit), Err(EqErr("NonZeroRootHash"))})

\* A verification whose first two indices are equal has answered DuplicateIdxs, and one
\* whose first pair both fails the collision check and is out of order has answered Collision.
C9_Witness ==
    /\ op.name = "verify_equihash_solution_with_params"
    /\ op.powheader = "bits"
    /\ Bind(DecodedIndices(op), LAMBDA idx :
        /\ Len(idx) = 8
        /\ \/ idx[1] = idx[2] /\ res = Err(EqErr("DuplicateIdxs"))
           \/ idx[1] = 1 /\ idx[2] = 0 /\ res = Err(EqErr("Collision")))

\* C10: whenever the verifier returns Ok for a 1344-byte solution under (n, k) = (200, 9),
\* the 512 indices decoded from it are pairwise distinct and each is smaller than 2^21.
C10_DistinctIndices ==
    (op.name = "verify_equihash_solution_with_params" /\ op.n = 200 /\ op.k = 9
        /\ Len(op.solution) = 1344 /\ res = Ok(Unit)) =>
        Bind(DecodedIndices(op), LAMBDA idx :
            /\ Len(idx) = 512
            /\ \A i \in 1..512 : idx[i] < 2 ^ 21
            /\ Cardinality({idx[i] : i \in 1..512}) = 512)

\* A 1344-byte solution holding the largest 21-bit index has been accepted.
C10_Witness ==
    /\ op.name = "verify_equihash_solution_with_params"
    /\ op.n = 200 /\ op.k = 9 /\ Len(op.solution) = 1344
    /\ res = Ok(Unit)
    /\ DecodedIndices(op)[512] = 2097151

----------------------------------------------------------------------------
(* light_client_minimal: the header store (store/file.rs) and the sync driver  *)
(* (sync.rs).  FileStore::put appends one record; a put that fails is taken to *)
(* leave the file as it was.                                                    *)

\* Bounds of the exploration.
MaxStored == 29         \* records in the store
SyncSpacing == 200      \* seconds between consecutive headers of the node's chain

\* u32 x - n for 0 <= n < 2^16 where x >= n.
U32SubSmall(x, n) ==
    IF x.lo >= n THEN U32(x.hi, x.lo - n) ELSE U32(x.hi - 1, x.lo + 65536 - n)

\* store/file.rs Record
Record(h, header_hex) == [height |-> h, header_hex |-> header_hex]

\* FileStore::put: one record appended.
store_put(s, h, header_hex) == Append(s, Record(h, header_hex))

\* FileStore::tip that reports the first record.
store_tip_first(s) == IF s = <<>> THEN {} ELSE {s[1].height}

\* FileStore::tip: the height of the last record; the Option is a set of at most one.
store_tip(s) == IF s = <<>> THEN {} ELSE {s[Len(s)].height}

\* FileStore::last_n
store_last_n(s, n) == IF Len(s) > n THEN SubSeq(s, Len(s) - n + 1, Len(s)) ELSE s

\* header_to_hex and header_from_hex: the hex text of the serialized header is the
\* header under a tag; reading it back takes the tag off.
header_to_hex(hd) == [hex |-> hd]
header_from_hex(x) == x.hex

\* sort_by_key(|(h, _)| *h): stable insertion by height.
RECURSIVE insert_by_height(_, _)
insert_by_height(sorted, rec) ==
    IF sorted = <<>> THEN <<rec>>
    ELSE IF U32Lt(rec.height, sorted[Len(sorted)].height)
    THEN Append(insert_by_height(SubSeq(sorted, 1, Len(sorted) - 1), rec), sorted[Len(sorted)])
    ELSE Append(sorted, rec)

\* A sort that leaves the records in descending order of height.
sort_by_height_desc(recs) ==
    Bind(ForLoop(LAMBDA acc, j : insert_by_height(acc, recs[j + 1]), 0, Len(recs), <<>>),
         LAMBDA a : Vec([j \in 1..Len(a) |-> a[Len(a) + 1 - j]], Len(a)))

sort_by_height(recs) ==
    ForLoop(LAMBDA acc, j : insert_by_height(acc, recs[j + 1]), 0, Len(recs), <<>>)

\* VerifyHeaderError
SyncErr(kind, detail) == [kind |-> kind, detail |-> detail]

\* The header of the node's chain at height h, and the headers a node may answer with.
RpcTime(h) == FirstTime + SyncSpacing * h.lo
\* Below height 28 no header is ever verified, only pushed as context: there the
\* node's chain carries, at odd heights, 0x1f87ffff, which decodes to the same target.
SeedBits(h) == IF h.hi = 0 /\ h.lo < 28 /\ h.lo % 2 = 1 THEN U32(8071, 65535) ELSE ChainBits
RpcChainHeader(h) == BlockHeader(RpcTime(h), SeedBits(h), ZeroTarget, "zero", 1)
RpcHeaders(h) ==
    { RpcChainHeader(h),
      BlockHeader(RpcTime(h), OtherBits, ZeroTarget, "zero", 1),
      BlockHeader(RpcTime(h), ChainBits, ZeroTarget, "zero", 2),
      BlockHeader(RpcTime(h), ChainBits, HashOnes, "zero", 1) }

\* Heights sync_chain is started at.
StartHeights == { U32(0, 27), U32(0, 28), U32(65535, 65534) }

\* One header handed to push_header while the context is seeded: its height, the
\* fields pushed, and whether it was read from the store or fetched by RPC.
Seed(h, hd, from) == [height |-> h, time |-> hd.time, bits |-> hd.bits, from |-> from]

\* A seeding that fetches nothing once the store holds a record.
seed_headers_stored_only(s, effective_start) ==
    Bind(store_last_n(s, 28), LAMBDA stored :
        IF stored # <<>>
        THEN Bind(sort_by_height(stored), LAMBDA stored_sorted :
             Vec([j \in 1..Len(stored_sorted) |->
                    Seed(stored_sorted[j].height,
                         header_from_hex(stored_sorted[j].header_hex), "store")],
                 Len(stored_sorted)))
        ELSE Vec([j \in 1..28 |->
                    Seed(U32SubSmall(effective_start, 28 - (j - 1)),
                         RpcChainHeader(U32SubSmall(effective_start, 28 - (j - 1))), "rpc")], 28))

\* The headers build_ctx_from_store_or_rpc pushes, in the order it pushes them, when
\* every RPC call answers with the chain's header.
seed_headers(s, effective_start) ==
    Bind(store_last_n(s, 28), LAMBDA stored :
        IF stored # <<>>
        THEN Bind(sort_by_height(stored), LAMBDA stored_sorted :
             LET m == Len(stored_sorted)
                 need == 28 - m
                 earliest == stored_sorted[1].height
                 \* start = earliest.saturating_sub(need); count = earliest - start
                 count == IF m >= 28 THEN 0
                          ELSE IF earliest.hi = 0 /\ earliest.lo < need THEN earliest.lo
                          ELSE need
                 rpc_height(j) == U32SubSmall(earliest, count - (j - 1))
             IN  Vec([j \in 1..count |->
                        Seed(rpc_height(j), RpcChainHeader(rpc_height(j)), "rpc")], count)
                 \o Vec([j \in 1..m |->
                        Seed(stored_sorted[j].height,
                             header_from_hex(stored_sorted[j].header_hex), "store")], m))
        ELSE Vec([j \in 1..28 |->
                    Seed(U32SubSmall(effective_start, 28 - (j - 1)),
                         RpcChainHeader(U32SubSmall(effective_start, 28 - (j - 1))), "rpc")], 28))

\* build_ctx_from_store_or_rpc: a context created at effective_start - 1 and fed the
\* seed headers.
build_ctx_from_store_or_rpc(s, effective_start) ==
    Bind(seed_headers(s, effective_start), LAMBDA seeds :
        ForLoop(LAMBDA c, j : push_header(c, seeds[j + 1].height, seeds[j + 1].time,
                                          seeds[j + 1].bits),
                0, Len(seeds), DifficultyContext_new(U32SubSmall(effective_start, 1))))

\* What build_ctx_from_store_or_rpc does, call by call.
build_ctx_trace(seeds) ==
    ForLoop(LAMBDA t, j : t \o (IF seeds[j + 1].from = "rpc" THEN <<"rpc">> ELSE <<>>)
                            \o <<"push_header">>,
            0, Len(seeds), <<"DifficultyContext::new", "store.last_n">>)

\* sync_chain that takes the tip itself as the height to start at.
sync_chain_entry_no_inc(s, start_height) ==
    IF U32Lt(start_height, U32(0, 28))
    THEN [exit |-> Err(SyncErr("InsufficientContext", start_height)), trace |-> <<>>]
    ELSE IF store_tip(s) = {U32_MAX}
    THEN [exit |-> Ok(Unit), trace |-> <<"store.tip">>]
    ELSE [exit |-> Pending, trace |-> <<"store.tip">>,
          effective_start |-> IF store_tip(s) = {} THEN start_height
                              ELSE CHOOSE t \in store_tip(s) : TRUE]

\* sync_chain that reads the store's tip before it looks at start_height.
sync_chain_entry_tip_first(s, start_height) ==
    IF store_tip(s) = {U32_MAX}
    THEN [exit |-> Ok(Unit), trace |-> <<"store.tip">>]
    ELSE IF U32Lt(start_height, U32(0, 28))
    THEN [exit |-> Err(SyncErr("InsufficientContext", start_height)),
          trace |-> <<"store.tip">>]
    ELSE [exit |-> Pending, trace |-> <<"store.tip">>,
          effective_start |-> IF store_tip(s) = {} THEN start_height
                              ELSE U32WrappingInc(CHOOSE t \in store_tip(s) : TRUE)]

\* sync_chain from its entry to the call of build_ctx_from_store_or_rpc: an early
\* return, or the height to start at; trace lists what it has called.
sync_chain_entry(s, start_height) ==
    IF U32Lt(start_height, U32(0, 28))
    THEN [exit |-> Err(SyncErr("InsufficientContext", start_height)), trace |-> <<>>]
    ELSE IF store_tip(s) = {U32_MAX}
    THEN [exit |-> Ok(Unit), trace |-> <<"store.tip">>]
    ELSE [exit |-> Pending, trace |-> <<"store.tip">>,
          effective_start |-> IF store_tip(s) = {} THEN start_height
                              ELSE U32WrappingInc(CHOOSE t \in store_tip(s) : TRUE)]

\* verify_header(rpc, height) when the node answers hd for height and the chain's
\* headers for the 28 heights before it: the result and what it has called.
verify_header(h, hd, bld) ==
    IF U32Lt(h, U32(0, 28))
    THEN [result |-> Err(SyncErr("InsufficientContext", h)), trace |-> <<>>]
    ELSE LET prev(j) == U32SubSmall(h, 28 - j)
             seeded == ForLoop(LAMBDA c, j : push_header(c, prev(j), RpcChainHeader(prev(j)).time,
                                                        RpcChainHeader(prev(j)).bits),
                               0, 28, DifficultyContext_new(U32SubSmall(h, 1)))
             seeding == ForLoop(LAMBDA t, j : t \o <<"rpc", "push_header">>, 0, 28,
                                <<"rpc", "DifficultyContext::new">>)
         IN  Bind(verify_pow_with_context(hd, h, seeded, bld).result, LAMBDA r :
                [result |-> IF IsErr(r) THEN Err(SyncErr("Pow", r.val)) ELSE r,
                 trace |-> seeding \o <<"verify_pow_with_context">>])

\* sync_chain returns (or its task is dropped): its locals are gone.
SyncReturn(r) ==
    /\ pc' = "idle"
    /\ res' = r
    /\ ctx' = DifficultyContext_new(U32(0, 0))
    /\ cur_height' = U32(0, 0)
    /\ cur_header' = NoHeader

InitSync ==
    /\ build \in {"debug", "release"}
    /\ ctx = DifficultyContext_new(U32(0, 0))
    /\ op = [name |-> "new"]
    /\ res = Ok(Unit)
    /\ odd = 0
    /\ pushes = 0
    /\ SyncIdle

\* sync_chain(rpc, store, start_height, prove) up to the first fetch of its loop.  An
\* RPC call of the seeding may fail: the first one is taken to.
SyncStart ==
    /\ pc = "idle"
    /\ \E start_height \in StartHeights :
        \E e \in {sync_chain_entry(store, start_height)} :
            IF e.exit # Pending
            THEN /\ SyncReturn(e.exit)
                 /\ op' = [name |-> "sync_chain", start_height |-> start_height,
                           trace |-> e.trace]
            ELSE \E seeds \in {seed_headers(store, e.effective_start)} :
                 \/ /\ \E j \in 1..Len(seeds) : seeds[j].from = "rpc"
                    /\ SyncReturn(Err(SyncErr("Rpc", "get_block_header_by_height")))
                    /\ op' = [name |-> "sync_chain", start_height |-> start_height,
                              trace |-> e.trace \o <<"DifficultyContext::new",
                                                     "store.last_n", "rpc">>]
                 \/ /\ pc' = "fetch"
                    /\ ctx' = build_ctx_from_store_or_rpc(store, e.effective_start)
                    /\ cur_height' = e.effective_start
                    /\ res' = Pending
                    /\ cur_header' = NoHeader
                    /\ op' = [name |-> "sync_chain", start_height |-> start_height,
                              trace |-> e.trace \o build_ctx_trace(seeds),
                              seeds |-> seeds]
    /\ UNCHANGED <<build, odd, pushes, store>>

\* verify_header(rpc, height): its context is a local, gone when it returns.  The
\* first RPC call may fail.
VerifyHeader ==
    /\ pc = "idle"
    /\ \E h \in StartHeights :
        \/ /\ ~U32Lt(h, U32(0, 28))
           /\ res' = Err(SyncErr("Rpc", "get_block_header_by_height"))
           /\ op' = [name |-> "verify_header", height |-> h, trace |-> <<"rpc">>]
        \/ \E hd \in RpcHeaders(h) : \E v \in {verify_header(h, hd, build)} :
              /\ res' = v.result
              /\ op' = [name |-> "verify_header", height |-> h, trace |-> v.trace]
    /\ UNCHANGED <<build, ctx, odd, pushes>>
    /\ UNCHANGED syncvars

\* rpc.get_block_header_by_height(height).await completes.
SyncFetch ==
    /\ pc = "fetch"
    /\ Len(store) < MaxStored
    /\ op' = [name |-> "get_block_header_by_height", height |-> cur_height]
    /\ \/ SyncReturn(Err(SyncErr("Rpc", "get_block_header_by_height")))
       \/ \E hd \in RpcHeaders(cur_height) :
            /\ cur_header' = hd
            /\ pc' = "verify"
            /\ res' = Pending
            /\ UNCHANGED <<ctx, cur_height>>
    /\ UNCHANGED <<build, odd, pushes, store>>

\* The task is cancelled while it waits for the header.
SyncCancel ==
    /\ pc = "fetch"
    /\ op' = [name |-> "cancel"]
    /\ SyncReturn(Err(SyncErr("Cancelled", "get_block_header_by_height")))
    /\ UNCHANGED <<build, odd, pushes, store>>

\* An iteration that persists the header whatever its verification said.
SyncVerify_continues ==
    /\ pc = "verify"
    /\ op' = [name |-> "verify_pow_with_context", header |-> cur_header, height |-> cur_height]
    /\ \E r \in {verify_pow_with_context(cur_header, cur_height, ctx, build)} :
        IF IsPanic(r.result) THEN SyncReturn(r.result)
        ELSE \/ SyncReturn(Panic("called Result::unwrap() on an Err value"))
             \/ /\ ctx' = r.ctx
                /\ res' = IF IsErr(r.result) THEN Err(SyncErr("Pow", r.result.val))
                          ELSE r.result
                /\ pc' = "persist"
                /\ UNCHANGED <<cur_height, cur_header>>
    /\ UNCHANGED <<build, odd, pushes, store>>

\* verify_pow_with_context(&header, height, &mut ctx) and verify_pow_in_cairo, whose
\* prover run either succeeds or makes it panic.
SyncVerify ==
    /\ pc = "verify"
    /\ op' = [name |-> "verify_pow_with_context", header |-> cur_header, height |-> cur_height]
    /\ \E r \in {verify_pow_with_context(cur_header, cur_height, ctx, build)} :
        IF IsPanic(r.result) THEN SyncReturn(r.result)
        ELSE IF IsErr(r.result) THEN SyncReturn(Err(SyncErr("Pow", r.result.val)))
        ELSE \/ SyncReturn(Panic("called Result::unwrap() on an Err value"))
             \/ /\ ctx' = r.ctx
                /\ res' = r.result
                /\ pc' = "persist"
                /\ UNCHANGED <<cur_height, cur_header>>
    /\ UNCHANGED <<build, odd, pushes, store>>

\* An iteration that pushes the persisted header into the context itself.
SyncPersist_pushes ==
    /\ pc = "persist"
    /\ op' = [name |-> "put", height |-> cur_height]
    /\ \/ /\ SyncReturn(Err(SyncErr("Rpc", "store header")))
          /\ UNCHANGED store
       \/ /\ store' = store_put(store, cur_height, header_to_hex(cur_header))
          /\ IF cur_height = U32_MAX
             THEN SyncReturn(Ok(Unit))
             ELSE /\ cur_height' = U32WrappingInc(cur_height)
                  /\ pc' = "fetch"
                  /\ res' = Pending
                  /\ ctx' = push_header(ctx, cur_height, cur_header.time, cur_header.bits)
                  /\ UNCHANGED cur_header
    /\ UNCHANGED <<build, odd, pushes>>

\* An iteration that stays at its height after the put.
SyncPersist_repeats ==
    /\ pc = "persist"
    /\ op' = [name |-> "put", height |-> cur_height]
    /\ \/ /\ SyncReturn(Err(SyncErr("Rpc", "store header")))
          /\ UNCHANGED store
       \/ /\ store' = store_put(store, cur_height, header_to_hex(cur_header))
          /\ IF cur_height = U32_MAX
             THEN SyncReturn(Ok(Unit))
             ELSE /\ pc' = "fetch"
                  /\ res' = Pending
                  /\ UNCHANGED <<ctx, cur_header, cur_height>>
    /\ UNCHANGED <<build, odd, pushes>>

\* header_to_hex, store.put(height, &header_hex) and height.checked_add(1).
SyncPersist ==
    /\ pc = "persist"
    /\ op' = [name |-> "put", height |-> cur_height]
    /\ \/ /\ SyncReturn(Err(SyncErr("Rpc", "store header")))
          /\ UNCHANGED store
       \/ /\ store' = store_put(store, cur_height, header_to_hex(cur_header))
          /\ IF cur_height = U32_MAX
             THEN SyncReturn(Ok(Unit))
             ELSE /\ cur_height' = U32WrappingInc(cur_height)
                  /\ pc' = "fetch"
                  /\ res' = Pending
                  /\ UNCHANGED <<ctx, cur_header>>
    /\ UNCHANGED <<build, odd, pushes>>

NextSync ==
    SyncStart \/ VerifyHeader \/ SyncFetch \/ SyncCancel \/ SyncVerify \/ SyncPersist

SpecSync == InitSync /\ [][NextSync]_vars

\* C3 as stated: store.put(h, ...) happens only after verify_pow_with_context returned
\* Ok for the header at height h in the same iteration, and at every fetch of the sync
\* loop the store's tip is ctx.tip_height.
C3_PersistedTipIsCtxTip ==
    [][/\ store' # store =>
            /\ pc = "persist" /\ res = Ok(Unit)
            /\ ctx.tip_height = cur_height
            /\ store' = Append(store, Record(cur_height, header_to_hex(cur_header)))
       /\ pc' = "fetch" => store_tip(store') = {ctx'.tip_height}
    ]_vars

\* C3: store.put(h, ...) happens only after verify_pow_with_context returned Ok for the
\* header at height h in the same iteration, a verification that fails leaves the store
\* as it was, and at every fetch of the sync loop ctx.tip_height = height - 1 and the
\* store is either still empty (nothing has been verified yet) or its tip is
\* ctx.tip_height.
C3_VerifyThenPersist ==
    [][/\ store' # store =>
            /\ pc = "persist" /\ res = Ok(Unit)
            /\ ctx.tip_height = cur_height
            /\ store' = Append(store, Record(cur_height, header_to_hex(cur_header)))
       /\ (pc = "verify" /\ pc' # "persist") => store' = store
       /\ pc' = "fetch" =>
            /\ U32WrappingInc(ctx'.tip_height) = cur_height'
            /\ store' = <<>> \/ store_tip(store') = {ctx'.tip_height}
    ]_vars

\* The loop waits for its next header with two records persisted, the second one after a
\* restart on the store the first run left.
C3_Witness ==
    /\ pc = "fetch"
    /\ Len(store) = 2
    /\ store_tip(store) = {ctx.tip_height}
    /\ FullContext(ctx)

----------------------------------------------------------------------------
(* difficulty/target.rs on its own: the two conversions applied one after the  *)
(* other, over nBits values and over targets.                                   *)

\* The nBits value with exponent byte exp and 24-bit low part low (sign bit included).
NBits(exp, low) == U32(exp * 256 + (low \div 65536), low % 65536)
NBitsExp(n) == n.hi \div 256
NBitsMant(n) == (n.hi % 128) * 65536 + n.lo

\* Exponents and low parts tried: exponents at both ends of 0..255 and around 3 and 32;
\* mantissas 0x010000, 0x010001, 0x0100ff, 0x120000, 0x123456, 0x7f0000 and 0x7fffff,
\* and the non-canonical 0, 1, 0x00ffff, 0x800000 and 0x923456.
RoundTripExps == {0, 1, 2, 3, 4, 5, 16, 30, 31, 32, 33, 34, 35, 36, 128, 255}
RoundTripLows ==
    {65536, 65537, 65791, 1179648, 1193046, 8323072, 8388607, 0, 1, 65535, 8388608, 9581654}

\* The target whose bytes from (0-based) index pos down are top: top[1] at pos,
\* top[2] at pos - 1, ...; all other bytes zero.
TargetAt(pos, top) ==
    Vec([x \in 1..32 |-> IF pos - (x - 1) >= 0 /\ pos - (x - 1) < Len(top)
                           THEN top[pos - (x - 1) + 1] ELSE 0], 32)

\* Targets tried, all at most the PoW limit: zero, the limit, and one to four
\* significant bytes at the low end, in the middle and just under the limit.
RoundTripTargets ==
    { ZeroTarget, POW_LIMIT_LE }
    \cup { TargetAt(pos, top) :
            pos \in {0, 1, 2, 3, 4, 17, 29},
            top \in { <<1>>, <<127>>, <<128>>, <<255>>, <<1, 128>>, <<1, 0, 1>>, <<127, 255, 255>>,
                      <<128, 0, 1>>, <<18, 52, 86, 1>>, <<128, 1, 0, 0>>, <<255, 255, 0, 0>>,
                      <<255, 255, 255, 255>> } }
    \cup { TargetAt(30, top) : top \in { <<1>>, <<7>>, <<7, 255, 255>>, <<7, 255, 255, 255>>,
                                         <<4, 0, 0, 1>> } }

\* One of the two round trips is about to be made.
InitTarget ==
    /\ build = "release"
    /\ ctx = DifficultyContext_new(U32(0, 0))
    /\ \/ \E e \in RoundTripExps, low \in RoundTripLows :
            op = [name |-> "target_from_nbits", bits |-> NBits(e, low)]
       \/ \E t \in RoundTripTargets :
            op = [name |-> "target_to_nbits", target |-> t]
    /\ res = Pending
    /\ odd = 0
    /\ pushes = 0
    /\ SyncIdle

\* target_to_nbits(&target_from_nbits(nbits))
NBitsRoundTrip ==
    /\ res = Pending
    /\ op.name = "target_from_nbits"
    /\ res' = Ok([target |-> target_from_nbits(op.bits),
                  bits |-> target_to_nbits(target_from_nbits(op.bits))])
    /\ UNCHANGED <<build, ctx, op, odd, pushes>>
    /\ UNCHANGED syncvars

\* target_from_nbits(target_to_nbits(&target))
TargetRoundTrip ==
    /\ res = Pending
    /\ op.name = "target_to_nbits"
    /\ res' = Ok([bits |-> target_to_nbits(op.target),
                  target |-> target_from_nbits(target_to_nbits(op.target))])
    /\ UNCHANGED <<build, ctx, op, odd, pushes>>
    /\ UNCHANGED syncvars

NextTarget == NBitsRoundTrip \/ TargetRoundTrip

SpecTarget == InitTarget /\ [][NextTarget]_vars

\* nbits is canonically encoded: mantissa bit 23 clear and leading mantissa byte nonzero.
Canonical(n) == (n.hi \div 128) % 2 = 0 /\ NBitsMant(n) >= 65536

\* C11 as stated: for every canonically encoded nbits, whatever its exponent byte,
\* target_to_nbits(target_from_nbits(nbits)) = nbits.
C11_RoundTripAllExponents ==
    (op.name = "target_from_nbits" /\ res # Pending /\ Canonical(op.bits)) =>
        res.val.bits = op.bits

\* C11: for every canonically encoded nbits whose exponent byte is in 3..32, where no
\* mantissa byte is shifted out of the 32-byte target at either end,
\* target_to_nbits(target_from_nbits(nbits)) = nbits.
C11_RoundTrip ==
    (op.name = "target_from_nbits" /\ res # Pending /\ Canonical(op.bits)
        /\ NBitsExp(op.bits) \in 3..32) =>
        res.val.bits = op.bits

\* The largest canonical mantissa at the largest exponent that fits went round.
C11_Witness ==
    /\ op.name = "target_from_nbits"
    /\ op.bits = NBits(32, 8388607)
    /\ res # Pending
    /\ res.val.target[32] = 127
    /\ res.val.bits = op.bits

\* t = m * 256^(e - 3) for some mantissa m < 2^23: below the top three bytes (the top
\* two, when the top byte is 0x80 or more) every byte of t is zero.
Representable(t) ==
    \/ t = ZeroTarget
    \/ \E p \in 1..32 :
        /\ t[p] # 0
        /\ \A x \in (p + 1)..32 : t[x] = 0
        /\ \A x \in 1..32 : (x < p - (IF t[p] >= 128 THEN 1 ELSE 2)) => t[x] = 0

\* C12: for every target t <= POW_LIMIT, targets of one or two significant bytes
\* included, target_from_nbits(target_to_nbits(t)) <= t, with equality if and only if t
\* is representable with a 23-bit mantissa.
C12_LossyDown ==
    (op.name = "target_to_nbits" /\ res # Pending) =>
        /\ ~Above(res.val.target, op.target)
        /\ (res.val.target = op.target) <=> Representable(op.target)

\* The number of bits of m < 2^23.
BitLen(m) == CHOOSE b \in 0..23 : m < 2 ^ b /\ (b = 0 \/ m >= 2 ^ (b - 1))

\* mantissa * 256^(exp - 3) > 2^243 - 1, for mantissa = nbits & 0x7fffff and
\* exp = nbits >> 24: the value has at least 244 bits.
EncodedAboveLimit(n) == NBitsMant(n) > 0 /\ BitLen(NBitsMant(n)) + 8 * (NBitsExp(n) - 3) >= 244

\* C13: for every hash and every nbits whose encoded value mantissa * 256^(exp - 3) is
\* greater than POW_LIMIT = 2^243 - 1, values that do not fit in 256 bits included,
\* verify_difficulty_filter does not return Ok.
C13_AboveLimitRejected ==
    (op.name = "verify_difficulty_filter" /\ res # Pending /\ EncodedAboveLimit(op.bits)) =>
        res # Ok(Unit)


(***************************************************************************)
(* The sync driver and its difficulty context                              *)
(***************************************************************************)

\* The height the i-th element (from 1) of a list of len elements describes in a
\* context whose tip is tip_height: tip_height - (len - 1) + (i - 1).
HeightAt(tip_height, len, i) == U32SubSmall(tip_height, len - i)

\* C14: in every context the driver holds (created by new, seeded by the driver's
\* pushes, advanced by successful verify_pow_with_context calls) the i-th element of
\* times is the nTime, and the i-th element of bits the nBits, of the header at height
\* tip_height - (len - 1) + i, counting i from 0.
C14_ContextHeights ==
    /\ \A i \in 1..Len(ctx.times) :
         ctx.times[i] = RpcTime(HeightAt(ctx.tip_height, Len(ctx.times), i))
    /\ \A i \in 1..Len(ctx.bits) :
         ctx.bits[i] = RpcChainHeader(HeightAt(ctx.tip_height, Len(ctx.bits), i)).bits

\* A context seeded from two stored headers and 26 fetched ones, then advanced by one
\* verification: 28 times, 17 bits of both spellings, tip 30.
C14_Witness ==
    /\ pc = "persist" /\ Len(store) = 2
    /\ ctx.tip_height = U32(0, 30)
    /\ Len(ctx.times) = 28 /\ Len(ctx.bits) = 17
    /\ ctx.bits[1] # ctx.bits[2]
    /\ ctx.times[28] = RpcTime(U32(0, 30))


\* How often a call is in a trace.
Count(trace, call) == Cardinality({j \in 1..Len(trace) : trace[j] = call})

\* The context is created, or dropped with the driver's locals.
Fresh(c) == c.times = <<>> /\ c.bits = <<>>

\* C15 as stated: in every execution of sync_chain (startup included) and of
\* verify_header every change to ctx is made by verify_pow_with_context, and the
\* driver itself never calls push_header.
C15_OnlyVerifyMutates ==
    [][/\ ctx' # ctx =>
            \/ Fresh(ctx')
            \/ /\ pc = "verify"
               /\ ctx' = verify_pow_with_context(cur_header, cur_height, ctx, build).ctx
       /\ op'.name \in {"sync_chain", "verify_header"} =>
            Count(op'.trace, "push_header") = 0
    ]_vars

\* C15: the driver calls push_header only to seed a context it has just created, before
\* its first verification: sync_chain at startup (28 pushes in
\* build_ctx_from_store_or_rpc) and verify_header (28 pushes before its one
\* verify_pow_with_context); inside the loop of sync_chain every change to ctx is made
\* by verify_pow_with_context.
C15_SeedThenVerify ==
    [][/\ ctx' # ctx =>
            \/ Fresh(ctx')
            \/ /\ pc = "verify"
               /\ ctx' = verify_pow_with_context(cur_header, cur_height, ctx, build).ctx
            \/ /\ pc = "idle" /\ pc' = "fetch" /\ Fresh(ctx)
               /\ op'.name = "sync_chain"
               /\ Count(op'.trace, "push_header") = 28
               /\ Count(op'.trace, "verify_pow_with_context") = 0
       /\ op'.name = "verify_header" /\ Count(op'.trace, "push_header") > 0 =>
            /\ Count(op'.trace, "push_header") = 28
            /\ Count(op'.trace, "verify_pow_with_context") = 1
            /\ op'.trace[Len(op'.trace)] = "verify_pow_with_context"
            /\ ctx' = ctx
    ]_vars

\* sync_chain has restarted on a store of two records and seeded its context with 28
\* pushes, 26 of them of headers it fetched.
C15_Witness ==
    /\ pc = "fetch" /\ Len(store) = 2 /\ op.name = "sync_chain"
    /\ Count(op.trace, "push_header") = 28 /\ Count(op.trace, "rpc") = 26
    /\ Len(ctx.times) = 28 /\ ctx.tip_height = U32(0, 29)


\* build_ctx_from_store_or_rpc has returned its context to sync_chain.
Seeded == pc = "fetch" /\ op.name = "sync_chain"

\* The record of height h in the store, as a set of at most one header.
StoredAt(h) == {header_from_hex(store[k].header_hex) : k \in {k \in 1..Len(store) : store[k].height = h}}

\* C16: started with start_height >= 28 on a store written by earlier sync_chain runs
\* (empty, shorter than 28 records, or longer), build_ctx_from_store_or_rpc pushes
\* exactly the 28 headers of heights effective_start - 28 .. effective_start - 1 in
\* ascending order, the most recent ones read from the store and the older ones it
\* lacks fetched by RPC, and the context it returns has 28 times, 17 bits and
\* tip_height = effective_start - 1.
C16_StartupSeeds ==
    Seeded =>
        /\ ~U32Lt(op.start_height, U32(0, 28))
        /\ Len(op.seeds) = 28
        /\ \A j \in 1..28 :
            LET sd == op.seeds[j]
                inStore == j > 28 - Len(store)
            IN  /\ sd.height = U32SubSmall(cur_height, 28 - (j - 1))
                /\ sd.from = IF inStore THEN "store" ELSE "rpc"
                /\ IF inStore
                   THEN \E hd \in StoredAt(sd.height) : sd.time = hd.time /\ sd.bits = hd.bits
                   ELSE /\ StoredAt(sd.height) = {}
                        /\ sd.time = RpcTime(sd.height)
                        /\ sd.bits = RpcChainHeader(sd.height).bits
        /\ Len(ctx.times) = 28 /\ Len(ctx.bits) = 17
        /\ ctx.tip_height = U32SubSmall(cur_height, 1)
        /\ ctx.times = [j \in 1..28 |-> op.seeds[j].time]
        /\ ctx.bits = [j \in 1..17 |-> op.seeds[j + 11].bits]

\* Startup on a store of three records: 25 headers fetched, then the three stored ones.
C16_Witness ==
    /\ Seeded /\ Len(store) = 3 /\ cur_height = U32(0, 31)
    /\ op.seeds[1].height = U32(0, 3)
    /\ op.seeds[25].from = "rpc" /\ op.seeds[26].from = "store"
    /\ op.seeds[28].height = U32(0, 30)

\* Startup on a store of more than 28 records: all 28 headers are the store's last.
C16_WitnessFullStore ==
    /\ Seeded /\ Len(store) = 29
    /\ op.seeds[1].from = "store" /\ op.seeds[1].height = U32(0, 29)


\* C17: at every call verify_pow_with_context(header, h, ctx) the driver makes in a
\* sync_chain run (on a store written by sync_chain) ctx.tip_height = h - 1: the push
\* of height h - 1 has happened; and the driver never receives HeightMismatch.
C17_SequentialHeights ==
    /\ pc = "verify" => /\ ~U32Lt(cur_height, U32(0, 28))
                        /\ ctx.tip_height = U32SubSmall(cur_height, 1)
                        /\ Len(ctx.times) = 28
                        /\ ctx.times[28] = RpcTime(U32SubSmall(cur_height, 1))
    /\ (/\ op.name \in {"verify_pow_with_context", "verify_header"}
        /\ IsErr(res)
        /\ res.val.kind = "Pow"
        /\ res.val.detail.stage = "ContextDifficulty")
       => res.val.detail.err.kind # "HeightMismatch"

\* The driver is about to verify height 30 on a context whose tip, 29, it verified and
\* pushed in this run; the run started on a store holding height 28.
C17_Witness ==
    /\ pc = "verify" /\ cur_height = U32(0, 30) /\ ctx.tip_height = U32(0, 29)
    /\ Len(store) = 2 /\ store[1].height = U32(0, 28) /\ store[2].height = U32(0, 29)
    /\ cur_header = RpcChainHeader(U32(0, 30))


\* C18: sync_chain with start_height < 28 returns InsufficientContext{height:
\* start_height} having made no RPC call, touched no store and created no context;
\* verify_header(rpc, height) with height < 28 returns InsufficientContext{height}
\* having fetched nothing.
C18_InsufficientContextFirst ==
    [][/\ (op'.name = "sync_chain" /\ U32Lt(op'.start_height, U32(0, 28))) =>
            /\ res' = Err(SyncErr("InsufficientContext", op'.start_height))
            /\ op'.trace = <<>>
            /\ pc' = "idle" /\ store' = store /\ ctx' = ctx
       /\ (op'.name = "verify_header" /\ U32Lt(op'.height, U32(0, 28))) =>
            /\ res' = Err(SyncErr("InsufficientContext", op'.height))
            /\ op'.trace = <<>>
            /\ pc' = "idle" /\ store' = store /\ ctx' = ctx
    ]_vars

\* sync_chain was started at 27 on a store that holds records and has returned
\* InsufficientContext.
C18_Witness ==
    /\ op.name = "sync_chain" /\ op.start_height = U32(0, 27)
    /\ store # <<>>
    /\ res = Err(SyncErr("InsufficientContext", U32(0, 27)))
    /\ op.trace = <<>>


\* C19: when verify_pow_with_context (Equihash, filter or contextual difficulty) or the
\* RPC fetch fails at height h in sync_chain, sync_chain returns that error at once: the
\* run is over with the store as it was (header h is not persisted), and nothing is
\* fetched, verified or persisted until sync_chain is called again.
C19_FailStops ==
    [][/\ (pc = "verify"
           /\ IsErr(verify_pow_with_context(cur_header, cur_height, ctx, build).result)) =>
            /\ res' = Err(SyncErr("Pow",
                        verify_pow_with_context(cur_header, cur_height, ctx, build).result.val))
            /\ pc' = "idle" /\ store' = store
       /\ (pc = "fetch" /\ op'.name = "get_block_header_by_height" /\ pc' # "verify") =>
            /\ res' = Err(SyncErr("Rpc", "get_block_header_by_height"))
            /\ pc' = "idle" /\ store' = store
       /\ pc = "idle" =>
            /\ store' = store
            /\ pc' = "idle" \/ (pc' = "fetch" /\ op'.name = "sync_chain")
       /\ store' # store => (pc = "persist" /\ res = Ok(Unit))
    ]_vars

\* The header fetched for height 30 failed the filter, sync_chain has returned that
\* error, and the store still ends at height 29.
C19_Witness ==
    /\ pc = "idle" /\ op.name = "verify_pow_with_context" /\ op.height = U32(0, 30)
    /\ IsErr(res) /\ res.val.kind = "Pow" /\ res.val.detail.stage = "Difficulty"
    /\ Len(store) = 2 /\ store[2].height = U32(0, 29)

\* sync_chain has returned the Equihash error of the header it fetched.
C19_WitnessEquihash ==
    /\ pc = "idle" /\ op.name = "verify_pow_with_context"
    /\ IsErr(res) /\ res.val.kind = "Pow" /\ res.val.detail.stage = "Equihash"

\* sync_chain has returned the contextual difficulty error of the header it fetched.
C19_WitnessContext ==
    /\ pc = "idle" /\ op.name = "verify_pow_with_context"
    /\ IsErr(res) /\ res.val.kind = "Pow" /\ res.val.detail.stage = "ContextDifficulty"

\* The fetch of height 30 failed and sync_chain has returned the RPC error.
C19_WitnessRpc ==
    /\ pc = "idle" /\ op.name = "get_block_header_by_height" /\ Len(store) = 2
    /\ res = Err(SyncErr("Rpc", "get_block_header_by_height"))


----------------------------------------------------------------------------
(* indices_from_minimal on its own, for (n, k) = (200, 9) *)

\* The solution and the indices of test_indices_from_minimal.
TestSolution == <<
    0, 148, 157, 85, 222, 12, 198, 51, 224, 204, 228, 30, 70, 73, 239, 74, 163, 52, 159, 1, 0,
    41, 15, 254, 40, 27, 148, 123, 59, 83, 251, 210, 243, 91, 28, 226, 146, 100, 155, 150,
    172, 110, 8, 131, 175, 58, 104, 68, 185, 85, 146, 231, 69, 86, 218, 52, 75, 71, 1, 150,
    28, 212, 19, 12, 104, 33, 156, 250, 19, 65, 213, 175, 181, 4, 158, 176, 232, 190, 74, 45,
    146, 214, 120, 196, 7, 133, 227, 55, 5, 84, 139, 95, 58, 84, 240, 164, 195, 154, 47, 88,
    238, 120, 74, 36, 22, 60, 216, 111, 84, 129, 35, 39, 223, 85, 225, 213, 92, 168, 75, 110,
    123, 136, 122, 124, 191, 185, 9, 26, 88, 91, 219, 142, 164, 117, 147, 7, 197, 108, 27, 61,
    175, 198, 105, 36, 90, 111, 101, 75, 111, 115, 0, 82, 38, 106, 1, 173, 79, 156, 11, 89,
    237, 78, 23, 113, 43, 62, 114, 223, 4, 152, 170, 141, 228, 136, 143, 153, 53, 49, 198, 10,
    205, 237, 29, 75, 102, 232, 157, 224, 182, 72, 44, 204, 212, 167, 18, 245, 207, 157, 76,
    168, 59, 224, 249, 34, 222, 44, 29, 187, 58, 20, 7, 72, 13, 190, 135, 149, 153, 61, 139,
    230, 64, 152, 138, 191, 231, 168, 161, 179, 58, 18, 19, 28, 69, 30, 26, 188, 13, 131, 251,
    133, 24, 98, 198, 55, 206, 114, 77, 95, 233, 122, 169, 168, 6, 207, 52, 186, 181, 9, 244,
    85, 75, 12, 209, 10, 125, 223, 213, 130, 27, 9, 26, 210, 201, 12, 26, 161, 216, 30, 179,
    215, 45, 180, 25, 147, 182, 72, 244, 30, 33, 56, 255, 149, 49, 163, 15, 247, 59, 34, 20,
    14, 78, 189, 123, 170, 51, 132, 142, 81, 45, 153, 48, 12, 92, 19, 28, 110, 117, 245, 113,
    74, 92, 109, 203, 23, 139, 74, 73, 120, 218, 200, 58, 212, 18, 251, 214, 146, 1, 146, 80,
    197, 83, 4, 154, 173, 69, 121, 132, 190, 223, 201, 106, 231, 1, 198, 89, 188, 112, 7, 169,
    125, 10, 144, 2, 185, 69, 189, 236, 69, 169, 69, 239, 98, 133, 178, 205, 85, 59, 76, 9,
    217, 7, 198, 39, 134, 63, 3, 153, 232, 114, 91, 79, 247, 252, 89, 121, 227, 207, 242, 40,
    20, 80, 132, 72, 239, 139, 152, 49, 194, 133, 149, 147, 51, 57, 106, 163, 98, 165, 28,
    242, 5, 9, 122, 250, 190, 193, 94, 65, 251, 110, 48, 182, 34, 55, 75, 245, 139, 55, 239,
    157, 27, 36, 30, 173, 90, 104, 43, 152, 182, 87, 73, 165, 117, 104, 226, 56, 213, 10, 253,
    65, 126, 30, 150, 14, 123, 90, 6, 79, 217, 246, 148, 215, 131, 162, 203, 205, 88, 85, 45,
    237, 187, 158, 94, 17, 35, 103, 78, 247, 58, 82, 65, 150, 207, 5, 211, 229, 36, 102, 5,
    73, 255, 231, 189, 101, 104, 5, 113, 53, 255, 213, 175, 217, 67, 246, 218, 17, 203, 181,
    151, 232, 204, 236, 215, 126, 203, 233, 9, 222, 6, 49, 191, 162, 156, 211, 227, 213, 84,
    70, 113, 186, 128, 37, 97, 83, 214, 233, 153, 11, 136, 173, 142, 12, 244, 152, 155, 239,
    75, 228, 87, 249, 199, 176, 241, 170, 205, 110, 14, 243, 32, 96, 92, 41, 237, 12, 210,
    235, 108, 252, 226, 22, 197, 42, 49, 117, 128, 32, 28, 173, 122, 9, 67, 210, 75, 123, 6,
    213, 191, 117, 135, 97, 221, 150, 225, 25, 112, 181, 222, 214, 151, 34, 43, 44, 119, 231,
    242, 86, 166, 5, 172, 117, 85, 73, 193, 101, 31, 37, 173, 252, 157, 83, 217, 17, 126, 58,
    11, 180, 9, 238, 228, 166, 0, 18, 4, 114, 148, 156, 125, 218, 28, 46, 219, 60, 51, 12,
    127, 150, 23, 153, 130, 145, 100, 87, 211, 49, 233, 99, 9, 221, 36, 223, 116, 238, 221, 0,
    231, 219, 73, 126, 225, 48, 247, 125, 230, 102, 235, 85, 127, 179, 22, 232, 122, 218, 241,
    129, 60, 228, 38, 164, 88, 166, 238, 227, 168, 91, 42, 184, 143, 101, 83, 170, 218, 232,
    222, 101, 46, 33, 26, 29, 159, 51, 77, 89, 107, 94, 182, 23, 52, 7, 239, 204, 46, 129, 84,
    187, 156, 161, 33, 42, 169, 161, 161, 18, 29, 47, 90, 119, 18, 207, 37, 204, 129, 72, 184,
    5, 46, 13, 46, 9, 242, 14, 91, 162, 169, 130, 119, 233, 117, 176, 238, 217, 168, 146, 6,
    150, 99, 55, 22, 63, 33, 92, 157, 4, 166, 89, 139, 9, 88, 211, 51, 216, 70, 119, 60, 105,
    229, 171, 253, 10, 4, 39, 243, 102, 6, 20, 221, 130, 183, 154, 219, 133, 26, 13, 88, 182,
    45, 245, 240, 179, 172, 131, 110, 110, 37, 243, 165, 31, 73, 169, 154, 222, 87, 121, 111,
    233, 252, 194, 111, 10, 31, 148, 255, 8, 25, 254, 82, 183, 80, 135, 237, 190, 211, 168,
    22, 38, 235, 84, 22, 198, 101, 87, 241, 28, 15, 206, 223, 242, 35, 214, 170, 140, 213,
    195, 83, 134, 229, 180, 185, 90, 15, 3, 146, 202, 48, 26, 56, 179, 104, 125, 9, 68, 147,
    185, 233, 210, 100, 208, 122, 25, 12, 229, 125, 17, 104, 4, 56, 42, 63, 171, 225, 90, 244,
    223, 79, 160, 67, 240, 40, 122, 161, 237, 85, 104, 217, 239, 93, 18, 81, 13, 1, 12, 205,
    171, 78, 182, 22, 246, 223, 19, 187, 49, 38, 239, 67, 217, 214, 87, 53, 228, 228, 192, 75,
    87, 99, 72, 208, 64, 181, 53, 5, 90, 61, 90, 225, 145, 183, 95, 6, 18, 243, 178, 64, 102,
    160, 82, 69, 242, 127, 229, 123, 218, 102, 189, 109, 236, 126, 79, 201, 203, 35, 104, 2,
    6, 42, 221, 227, 205, 14, 49, 52, 130, 201, 42, 12, 114, 17, 2, 177, 243, 139, 1, 90, 184,
    208, 21, 89, 203, 203, 64, 246, 116, 233, 239, 173, 94, 233, 194, 254, 19, 63, 170, 85,
    202, 29, 208, 255, 38, 113, 15, 157, 168, 25, 204, 20, 89, 203, 126, 210, 96, 218, 211,
    219, 5, 150, 37, 141, 71, 199, 76, 50, 168, 184, 82, 182, 113, 197, 160, 202, 162, 0, 22,
    3, 217, 12, 145, 167, 223, 46, 45, 78, 233, 174, 155, 241, 166, 177, 236, 136, 21, 28, 98,
    54, 13, 3, 2, 77, 46, 45, 1, 20, 8, 79, 107, 136, 197, 187, 162, 74, 167, 206, 207, 172,
    22, 233, 30, 11, 175, 61, 134, 83, 226, 24, 9, 62, 129, 210, 166, 60, 50, 239, 241, 217,
    3, 15, 158, 20, 20, 236, 228, 32, 218, 162, 78, 13, 213, 184, 69, 179, 39, 75, 184, 57,
    202, 28, 83, 188, 192, 25, 66, 66, 215, 75, 38, 49, 185, 73, 90, 101, 79, 187, 220, 191,
    173, 119, 159, 115, 34, 182, 7, 54, 36, 152, 128, 96, 72, 33, 217, 105, 36, 227, 250, 57,
    127, 53, 74, 94, 204, 163, 79, 97, 77, 165, 69, 111, 155, 54, 51, 140, 55, 216, 246, 251,
    246, 38, 190, 152, 52, 119, 118, 96, 34, 135, 39, 70, 218, 16, 161, 119, 28, 235, 2, 221,
    138, 172, 1, 186, 24, 107, 241, 72, 134, 48, 71, 158, 18, 132, 218, 1, 144, 252, 232, 181,
    154, 198, 176, 253, 65, 107, 238, 86, 183, 47, 10, 88, 69, 21, 53, 87, 255, 15, 73, 80,
    160, 220, 91, 230, 92, 233, 66, 210, 46, 24, 83, 76, 78, 14, 250, 187, 45, 21, 37, 220,
    72, 88, 185, 176, 247, 125, 71, 74, 18, 94, 188, 37, 14, 8, 254, 219, 250, 166, 111, 69,
    61, 144, 147, 44, 171, 63, 244, 82, 33, 144, 153, 104, 229, 30, 107, 194, 84, 213, 9, 173,
    235, 117, 203, 167, 109, 72, 254, 2, 78, 62, 102, 216, 223, 94 >>
TestExpected == <<
    4755, 1398648, 418585, 1969358, 539788, 1211346, 1382820, 2031872, 336383, 1613934,
    671133, 1392573, 386742, 473252, 1254620, 1485934, 69749, 1894817, 154794, 1650292,
    699828, 856785, 1576112, 1889299, 101636, 422888, 631018, 1768272, 605537, 1716114,
    1141910, 1472708, 61628, 842773, 673199, 1287503, 84359, 429014, 488386, 664598, 498445,
    1921540, 1151983, 1400349, 702800, 1235870, 1852371, 1884089, 74571, 94062, 479802,
    1650812, 710710, 1010673, 1263906, 1732453, 617966, 786760, 1258752, 1758457, 1578675,
    1790853, 1804633, 1995487, 37653, 669586, 280524, 1266460, 791963, 1787730, 1783620,
    1958070, 591257, 1266332, 621287, 1692874, 1079233, 1984695, 1138925, 1784340, 59649,
    1505822, 707742, 1621604, 78101, 1047018, 331161, 1708563, 231587, 1600240, 442877,
    1593734, 363631, 1285267, 720715, 1747368, 55782, 1239764, 326186, 1355981, 136443,
    1570144, 1103944, 1757897, 99156, 483450, 1698710, 1786265, 486545, 1902472, 641020,
    1388963, 130791, 821328, 468830, 1555107, 461084, 1330022, 622690, 1839900, 904894,
    1426729, 931557, 1145012, 1348337, 1487374, 1482903, 1824402, 12874, 202060, 150870,
    1333144, 622015, 1202873, 1576498, 1686640, 62767, 1321536, 89250, 1826500, 742027,
    1824929, 890474, 1391436, 80672, 2037918, 204673, 1678983, 308895, 1965846, 773918,
    1045032, 166416, 1123262, 379928, 1845337, 730726, 940712, 1774888, 1896965, 77663,
    719621, 991485, 1499915, 803950, 1244514, 1687420, 1907492, 251307, 630958, 809771,
    1350231, 709060, 931138, 1567243, 1973910, 118635, 530751, 850762, 882746, 366490,
    1447243, 1011164, 1990161, 290025, 1826025, 598219, 847965, 510536, 1671506, 1048381,
    1926504, 44582, 1572694, 1567905, 2059681, 235371, 391731, 485051, 2018281, 80832,
    1623806, 1134185, 1981781, 560355, 958473, 723614, 1501593, 94485, 1456179, 1723469,
    2028734, 569331, 1174588, 874091, 921331, 265227, 1091508, 420213, 1494990, 273802,
    691293, 786688, 1879418, 75898, 601580, 223967, 1529974, 244525, 1590876, 372470, 1480482,
    353678, 2072521, 742146, 1754965, 693122, 1656777, 880612, 1922009, 143303, 536272,
    325490, 679937, 264421, 337695, 970977, 973628, 418191, 1988702, 835912, 1459581, 418770,
    1622647, 599803, 1371869, 7419, 861691, 1087611, 1564262, 906922, 2092229, 1524694,
    1765761, 498820, 1741154, 1275761, 1738162, 1405214, 1660138, 1496902, 1991982, 271171,
    1473741, 437429, 1436513, 944143, 1831691, 1313445, 1809569, 271701, 427652, 593559,
    1419121, 368203, 1253458, 376873, 920878, 81473, 1666698, 1360187, 2004827, 122291,
    664705, 1356569, 1513023, 273299, 1315481, 836996, 1412403, 503948, 1953562, 994655,
    1903108, 327276, 1579091, 967003, 1682872, 668698, 1453451, 1027973, 1289347, 904644,
    1560212, 1025236, 1682917, 979679, 1736496, 1275984, 2069759, 66367, 1657565, 541686,
    1830202, 1059917, 1758469, 1454890, 1569052, 129499, 2082959, 742726, 875573, 462283,
    863830, 1079324, 1231408, 214806, 893428, 303689, 1810077, 313760, 2000451, 469992,
    1140740, 460103, 2011013, 883311, 1374724, 516176, 2009211, 699206, 1699677, 150049,
    1311795, 447911, 745839, 900647, 969801, 1538590, 1693271, 441500, 1245485, 766372,
    853003, 682506, 1478486, 1510541, 1531654, 155254, 590234, 1059106, 2041854, 718772,
    1683291, 1008626, 1034699, 290048, 530603, 979430, 1106707, 591250, 688924, 1083413,
    1176459, 11095, 213077, 845285, 1314663, 644063, 743354, 923632, 1261482, 702787, 1524732,
    1259655, 1694337, 1284136, 1471199, 1479430, 1758171, 45764, 1455391, 239129, 691077,
    355555, 1140786, 1380352, 1442777, 102964, 2063544, 1484660, 1763775, 216419, 1778181,
    582417, 1445123, 18853, 1618948, 656423, 1489036, 751428, 1223155, 1473888, 1501470,
    95719, 1448271, 1117188, 1304605, 347256, 834556, 968728, 1023508, 171420, 1082218,
    1124102, 1923972, 747086, 1240590, 938210, 1293504, 206920, 744748, 1251548, 1349030,
    696183, 1519595, 769275, 1254070, 59076, 1204737, 1057808, 1939090, 641012, 942029,
    676598, 828239, 797108, 1381822, 891673, 1622909, 1175031, 1935791, 1360291, 1537632,
    282852, 1907560, 544955, 1167024, 375573, 721006, 1098591, 1132678, 395507, 1591827,
    852168, 1035915, 734605, 802640, 745330, 1488687, 84744, 1332437, 786311, 1348874, 112823,
    1677114, 661137, 923731, 625089, 1829612, 1477266, 1950853, 1143649, 1957713, 1724562,
    2014245, 114975, 1798122, 1259426, 1300745, 416086, 1047828, 1117316, 1665253, 249208,
    611156, 317173, 1531066, 973457, 2064531, 1176374, 1630046 >>

\* Byte strings: byte x (0-based) is (a * x + b) mod 256; one byte set in zeros.
Pattern(len, a, b) == Vec([x \in 1..len |-> (a * (x - 1) + b) % 256], len)
OneSet(len, pos, v) == Vec([x \in 1..len |-> IF x = pos THEN v ELSE 0], len)

\* Solutions handed to indices_from_minimal: 1344 bytes long, and of other lengths.
MinimalSolutions ==
    { TestSolution, GoodSolution, DupSolution }
    \cup { Pattern(1344, a, b) : a \in {0, 1, 7, 85, 255}, b \in {0, 1, 128, 255} }
    \cup { OneSet(1344, pos, v) : pos \in {1, 2, 3, 4, 672, 1343, 1344}, v \in {1, 128, 255} }
    \cup { Pattern(len, a, 1) : len \in {0, 1, 2, 3, 4, 21, 42, 672, 1343, 1345, 1348, 2688},
                                a \in {0, 7} }

InitIndices ==
    /\ build = "release"
    /\ ctx = DifficultyContext_new(U32(0, 0))
    /\ \E sol \in MinimalSolutions : op = [name |-> "indices_from_minimal", solution |-> sol]
    /\ res = Pending
    /\ odd = 0
    /\ pushes = 0
    /\ SyncIdle

\* indices_from_minimal(Params::new(200, 9).unwrap(), solution) returns.
IndicesCall ==
    /\ res = Pending
    /\ res' = indices_from_minimal(CHOOSE q \in Params_new(200, 9) : TRUE, op.solution)
    /\ UNCHANGED <<build, ctx, op, odd, pushes>>
    /\ UNCHANGED syncvars

NextIndices == IndicesCall

SpecIndices == InitIndices /\ [][NextIndices]_vars

\* Bit t of a byte string read as an MSB-first bitstream, and the big-endian value of
\* its bits [from, from + n).
BitOf(bytes, t) == (bytes[(t \div 8) + 1] \div (2 ^ (7 - (t % 8)))) % 2
BitsValue(bytes, from, n) ==
    ForLoop(LAMBDA acc, j : 2 * acc + BitOf(bytes, from + j), 0, n, 0)

\* C21: for (n, k) = (200, 9) and every 1344-byte solution indices_from_minimal returns
\* exactly 512 indices, the i-th (from 0) being the big-endian value of bits
\* [21 i, 21 i + 21) of the solution read MSB first; for every other length it returns
\* None; the fixture of test_indices_from_minimal decodes to the list given there.
C21_IndexDecoding ==
    (op.name = "indices_from_minimal" /\ res # Pending) =>
        /\ IF Len(op.solution) = 1344
           THEN /\ IsOk(res)
                /\ Len(res.val.indices) = 512
                /\ \A i \in 0..511 :
                     res.val.indices[i + 1] = BitsValue(op.solution, 21 * i, 21)
           ELSE res = Err(EqErr("None"))
        /\ op.solution = TestSolution => res = Ok([indices |-> TestExpected])

\* The fixture of the source's test has been decoded: 512 indices, the first 4755.
C21_Witness ==
    /\ op.name = "indices_from_minimal" /\ op.solution = TestSolution
    /\ IsOk(res) /\ Len(res.val.indices) = 512
    /\ res.val.indices[1] = 4755 /\ res.val.indices[2] = 1398648


----------------------------------------------------------------------------
(* DifficultyContext::push_header on its own: sequences of pushes on an empty *)
(* context, op.pushed being the arguments of the pushes made so far.          *)

MaxSeq == 31            \* pushes made on one context
MaxOddPush == 1         \* pushes whose arguments do not continue the sequence

\* The arguments of the n-th push (from 0) of the regular sequence.
SeqPush(n) == [height |-> U32(0, 100 + n), time |-> 5000 + 10 * n, bits |-> U32(7943, n)]

\* Other arguments a caller may pass: a height, time and bits seen before, and zeros.
OddPushes == { [height |-> U32(0, 100), time |-> 5000, bits |-> U32(7943, 0)],
               [height |-> U32_MAX, time |-> 0, bits |-> U32(0, 0)] }

InitPush ==
    /\ build = "release"
    /\ ctx = DifficultyContext_new(U32(0, 99))
    /\ op = [name |-> "push_header", pushed |-> <<>>]
    /\ res = Ok(Unit)
    /\ odd = 0
    /\ pushes = 0
    /\ SyncIdle

\* ctx.push_header(height, n_time, n_bits) with the next arguments of the sequence.
PushSeq ==
    /\ pushes < MaxSeq
    /\ \E a \in {SeqPush(pushes)} :
        /\ ctx' = push_header(ctx, a.height, a.time, a.bits)
        /\ op' = [op EXCEPT !.pushed = Append(@, a)]
    /\ pushes' = pushes + 1
    /\ UNCHANGED <<build, res, odd>>
    /\ UNCHANGED syncvars

\* ctx.push_header with other arguments.
PushOther ==
    /\ pushes < MaxSeq
    /\ odd < MaxOddPush
    /\ \E a \in OddPushes :
        /\ ctx' = push_header(ctx, a.height, a.time, a.bits)
        /\ op' = [op EXCEPT !.pushed = Append(@, a)]
    /\ pushes' = pushes + 1
    /\ odd' = odd + 1
    /\ UNCHANGED <<build, res>>
    /\ UNCHANGED syncvars

NextPush == PushSeq \/ PushOther

SpecPush == InitPush /\ [][NextPush]_vars

\* The last min(Len(s), n) elements of s.
LastN(s, n) == IF Len(s) > n THEN SubSeq(s, Len(s) - n + 1, Len(s)) ELSE s

\* C22: after n push_header calls on an empty context, times is the last min(n, 28)
\* pushed times in push order, bits the last min(n, 17) pushed bits in push order, and
\* tip_height the height argument of the last push.
C22_PushWindow ==
    op.name = "push_header" =>
        LET n == Len(op.pushed)
        IN  /\ ctx.times = LastN([j \in 1..n |-> op.pushed[j].time], 28)
            /\ ctx.bits = LastN([j \in 1..n |-> op.pushed[j].bits], 17)
            /\ n > 0 => ctx.tip_height = op.pushed[n].height
            /\ n = 0 => ctx.tip_height = U32(0, 99)

\* 30 pushes, the third one out of sequence: the two oldest times and the thirteen
\* oldest bits are gone, the out-of-sequence time is now the oldest.
C22_Witness ==
    /\ op.name = "push_header" /\ Len(op.pushed) = 30
    /\ op.pushed[3].height = U32_MAX
    /\ Len(ctx.times) = 28 /\ ctx.times[1] = 0 /\ ctx.times[2] = 5030
    /\ Len(ctx.bits) = 17 /\ ctx.bits[1] = U32(7943, 13)
    /\ ctx.tip_height = U32(0, 129)


----------------------------------------------------------------------------
(* expected_nbits on its own, over full contexts: 28 times in three groups (the 11 *)
(* oldest, 6 in the middle, the 11 newest) and 17 nBits.                           *)

\* nTime of the oldest group.
BaseTime == 1600000000

\* Orders of a group of 11: its offsets from the group's median, times the spread.
GroupOrders ==
    { <<-5, -4, -3, -2, -1, 0, 1, 2, 3, 4, 5>>,
      <<5, 4, 3, 2, 1, 0, -1, -2, -3, -4, -5>>,
      <<0, 5, -5, 1, -1, 4, -4, 2, -2, 3, -3>> }

\* The six times between the groups.
MiddleTimes == { <<0, 0, 0, 0, 0, 0>>, <<BaseTime, 7, 2000000000, 1, BaseTime + 99999, 3>> }

\* recent_median - past_median of the contexts tried: around the clamping bounds, the
\* undamped timespan 1275, zero and negative spans.
Actuals ==
    { -100000, -1, 0, 1, 458, 459, 460, 461, 462, 1271, 1272, 1273, 1274, 1275, 1276,
      1277, 1278, 1279, 2906, 2907, 2908, 2910, 2911, 100000 }

\* 28 times: the oldest group around BaseTime, the newest, spread twice as wide, around
\* BaseTime + actual.
TimesOf(actual, order, spread, middle) ==
    Vec([x \in 1..11 |-> BaseTime + spread * order[x]], 11)
    \o middle
    \o Vec([x \in 1..11 |-> BaseTime + actual + 2 * spread * order[12 - x]], 11)

ContextTimes ==
    { TimesOf(a, <<-5, -4, -3, -2, -1, 0, 1, 2, 3, 4, 5>>, 0, <<0, 0, 0, 0, 0, 0>>) :
        a \in Actuals }
    \cup { TimesOf(a, o, sp, m) : a \in {1273, 2000}, o \in GroupOrders, sp \in {1, 400},
                                  m \in MiddleTimes }

\* 17 nBits: the PoW limit throughout, lower targets, a mix, one- and two-byte
\* targets, zero, and encodings above the limit.
ContextBits ==
    { [x \in 1..17 |-> ChainBits],
      [x \in 1..17 |-> U32(7183, 65520)],
      [x \in 1..17 |-> IF x % 2 = 0 THEN ChainBits ELSE U32(7424 + x, 4660 * x)],
      [x \in 1..17 |-> IF x = 17 THEN ChainBits ELSE U32(0, 0)],
      [x \in 1..17 |-> U32(769, 0)],
      [x \in 1..17 |-> U32(1024 + 127, 65535)],
      [x \in 1..17 |-> U32(8071, 65535)],
      [x \in 1..17 |-> U32(8192 + 127, 65535)],
      [x \in 1..17 |-> IF x < 4 THEN U32(8192 + 15, 65535) ELSE ChainBits] }

InitNbits ==
    /\ build = "release"
    /\ \E t \in ContextTimes : \E b \in ContextBits :
            ctx = [tip_height |-> U32(0, 1000), times |-> t, bits |-> b]
    /\ op = [name |-> "expected_nbits", height |-> U32(0, 1001)]
    /\ res = Pending
    /\ odd = 0
    /\ pushes = 0
    /\ SyncIdle

\* expected_nbits(&ctx, height) returns; the values threshold computes on the way are
\* kept beside the result.
NbitsCall ==
    /\ res = Pending
    /\ res' = [tag |-> "Done",
               val |-> [expected |-> expected_nbits(ctx, op.height, build),
                        actual |-> actual_timespan(ctx),
                        ats_bounded |-> clamp_timespan(actual_timespan_damped(ctx)),
                        mean |-> mean_target(ctx),
                        threshold |-> threshold(ctx)]]
    /\ UNCHANGED <<build, ctx, op, odd, pushes>>
    /\ UNCHANGED syncvars

NextNbits == NbitsCall

SpecNbits == InitNbits /\ [][NextNbits]_vars


\* The 6th smallest of 11 values.
SixthSmallest(g) ==
    CHOOSE x \in {g[j] : j \in 1..11} :
        /\ Cardinality({j \in 1..11 : g[j] < x}) <= 5
        /\ Cardinality({j \in 1..11 : g[j] <= x}) >= 6

\* a / b truncated toward zero, for b > 0.
TowardZero(a, b) ==
    CHOOSE q \in {a \div b, (a \div b) + 1} :
        /\ a >= 0 => (q * b <= a /\ a - q * b < b)
        /\ a < 0 => (q * b >= a /\ q * b - a < b)

\* clip(1275 + trunc((actual - 1275) / 4), 1071, 1683) for the times of a full context,
\* actual being recent_median - past_median, or 1275 when that is 0.
ClippedTimespan(times) ==
    LET span == SixthSmallest(SubSeq(times, 18, 28)) - SixthSmallest(SubSeq(times, 1, 11))
        actual == IF span = 0 THEN 1275 ELSE span
        damped == 1275 + TowardZero(actual - 1275, 4)
    IN  IF damped < 1071 THEN 1071 ELSE IF damped > 1683 THEN 1683 ELSE damped

\* C23: for every full context the timespan that scales the target in expected_nbits
\* is clip(1275 + trunc((actual - 1275) / 4), 1071, 1683), actual = recent_median -
\* past_median (signed, 1275 when it is 0) and trunc rounding toward zero; it is always
\* within [1071, 1683].
C23_DampedTimespan ==
    res.tag = "Done" =>
        /\ res.val.ats_bounded = ClippedTimespan(ctx.times)
        /\ res.val.ats_bounded >= 1071 /\ res.val.ats_bounded <= 1683
        /\ res.val.threshold =
              min_target(mul_target_u32(div_target_u32(res.val.mean, 1275),
                                        ClippedTimespan(ctx.times)),
                         POW_LIMIT_LE)
        /\ res.val.expected = Ok(target_to_nbits(res.val.threshold))

\* The medians are 1273 apart: (1273 - 1275) / 4 is 0 truncated (-1 floored), and the
\* target is scaled by 1275.
C23_Witness ==
    /\ res.tag = "Done" /\ res.val.actual = 1273 /\ res.val.ats_bounded = 1275
    /\ ctx.bits[1] = U32(7183, 65520)


\* The times of a full context with each group of 11 rearranged (the oldest reversed,
\* the newest rotated by four) and the six in the middle replaced.
Rearranged(times, middle) ==
    Vec([x \in 1..11 |-> times[12 - x]], 11)
    \o middle
    \o Vec([x \in 1..11 |-> times[18 + ((x + 3) % 11)]], 11)

\* C24: in a context of 28 times recent_median is the 6th smallest of the 11 newest
\* (positions 17..27) and past_median the 6th smallest of the 11 oldest (positions
\* 0..10), and expected_nbits depends neither on the six times in positions 11..16 nor
\* on the order of the times inside each group of 11.
C24_Medians ==
    res.tag = "Done" =>
        /\ median_11(Slice(ctx.times, 17, 28)) = SixthSmallest(SubSeq(ctx.times, 18, 28))
        /\ median_11(Slice(ctx.times, 0, 11)) = SixthSmallest(SubSeq(ctx.times, 1, 11))
        /\ res.val.actual =
              IF SixthSmallest(SubSeq(ctx.times, 18, 28)) = SixthSmallest(SubSeq(ctx.times, 1, 11))
              THEN 1275
              ELSE SixthSmallest(SubSeq(ctx.times, 18, 28))
                     - SixthSmallest(SubSeq(ctx.times, 1, 11))
        /\ \A m \in MiddleTimes \cup {SubSeq(ctx.times, 12, 17), <<9, 8, 7, 6, 5, 4>>} :
              /\ expected_nbits([ctx EXCEPT !.times = Rearranged(ctx.times, m)],
                                op.height, build) = res.val.expected
              /\ expected_nbits([ctx EXCEPT !.times = SubSeq(ctx.times, 1, 11) \o m
                                                       \o SubSeq(ctx.times, 18, 28)],
                                op.height, build) = res.val.expected

\* A context whose groups are out of order and 400 and 800 seconds apart inside, with
\* a time of 2000000000 in the middle; the medians are 2000 apart.
C24_Witness ==
    /\ res.tag = "Done" /\ res.val.actual = 2000
    /\ ctx.times[1] = BaseTime + 2000 /\ ctx.times[2] = BaseTime + 1600
    /\ ctx.times[14] = 2000000000
    /\ ctx.times[28] = BaseTime + 2000 + 4000
    /\ ctx.bits[1] = ChainBits


\* Exact arithmetic on natural numbers written as little-endian byte strings of any
\* length, wide enough that nothing is lost: sum, quotient and product by a small
\* number, and order.
WAdd(a, b) ==
    ForLoop(LAMBDA st, i : LET sum == a[i + 1] + b[i + 1] + st.carry
                           IN  [carry |-> sum \div 256, out |-> Append(st.out, sum % 256)],
            0, Len(a), [carry |-> 0, out |-> <<>>]).out
WDiv(x, rhs) ==
    ForLoop(LAMBDA st, t : LET cur == st.rem * 256 + x[Len(x) - t]
                           IN  [rem |-> cur % rhs, out |-> <<cur \div rhs>> \o st.out],
            0, Len(x), [rem |-> 0, out |-> <<>>]).out
WMul(x, rhs) ==
    ForLoop(LAMBDA st, i : LET cur == x[i + 1] * rhs + st.carry
                           IN  [carry |-> cur \div 256, out |-> Append(st.out, cur % 256)],
            0, Len(x), [carry |-> 0, out |-> <<>>]).out
WGreater(a, b) ==
    \E i \in 1..Len(a) : a[i] > b[i] /\ \A j \in (i + 1)..Len(a) : a[j] = b[j]
Wide(t) == t \o <<0, 0, 0, 0>>

\* min(floor(floor(sum / 17) / 1275) * clamped, POW_LIMIT) on exact integers, sum being
\* the sum of the targets the 17 bits decode to.
ExactThreshold(bits, clamped) ==
    LET sum == ForLoop(LAMBDA acc, i : WAdd(acc, Wide(target_from_nbits(bits[i + 1]))),
                       0, 17, Wide(ZeroTarget))
        scaled == WMul(WDiv(WDiv(sum, 17), 1275), clamped)
    IN  IF WGreater(scaled, Wide(POW_LIMIT_LE)) THEN Wide(POW_LIMIT_LE) ELSE scaled

\* The carries out of the 17 add_target steps of mean_target, added up.
SumCarries(bits) ==
    ForLoop(LAMBDA st, i :
                Bind(target_from_nbits(bits[i + 1]), LAMBDA t :
                    [acc |-> add_target(st.acc, t),
                     carries |-> st.carries
                        + ForLoop(LAMBDA a, j : add_step(st.acc, t, a, j), 0, 32,
                                  [carry |-> 0, out |-> <<>>]).carry]),
            0, 17, [acc |-> ZeroTarget, carries |-> 0]).carries

\* The carry out of mul_target_u32(x, rhs).
MulCarry(x, rhs) ==
    ForLoop(LAMBDA st, i : mul_step(x, rhs, st, i), 0, 32, [carry |-> 0, out |-> <<>>]).carry

\* Every quotient q of div_target_u32(x, rhs) fits its byte.
QuotientsFit(x, rhs) ==
    ForLoop(LAMBDA st, t : [rem |-> div_step(x, rhs, st, t).rem, out |-> <<>>,
                            fit |-> st.fit /\ (st.rem * 256 + At(x, 31 - t)) \div rhs < 256],
            0, 32, [rem |-> 0, out |-> <<>>, fit |-> TRUE]).fit

\* Every one of the 17 bits decodes to a target within the PoW limit.
WithinLimit(bits) ==
    \A i \in 1..17 : cmp_target(target_from_nbits(bits[i]), POW_LIMIT_LE) # "Greater"

\* C25: for every context whose 17 bits decode to targets <= POW_LIMIT, and whatever the
\* clamped timespan, no 256-bit operation of expected_nbits overflows: the carry out of
\* each add_target step and of mul_target_u32 is 0 and every quotient byte of
\* div_target_u32 is below 256, so the threshold is the exact integer
\* min(floor(floor(sum / 17) / 1275) * clamped, POW_LIMIT).
C25_NoOverflow ==
    (res.tag = "Done" /\ WithinLimit(ctx.bits)) =>
        /\ SumCarries(ctx.bits) = 0
        /\ QuotientsFit(ForLoop(LAMBDA acc, i : add_target(acc, target_from_nbits(ctx.bits[i + 1])),
                                0, 17, ZeroTarget), 17)
        /\ QuotientsFit(res.val.mean, 1275)
        /\ MulCarry(div_target_u32(res.val.mean, 1275), res.val.ats_bounded) = 0
        /\ Wide(res.val.threshold) = ExactThreshold(ctx.bits, res.val.ats_bounded)
        /\ res.val.expected = Ok(target_to_nbits(res.val.threshold))

\* Seventeen targets of nBits 0x1f07ffff, the compact PoW limit, scaled by the largest
\* timespan, 1683: the product is above the limit and the threshold is the limit.
C25_Witness ==
    /\ res.tag = "Done" /\ res.val.ats_bounded = 1683
    /\ \A i \in 1..17 : ctx.bits[i] = ChainBits
    /\ res.val.mean = target_from_nbits(ChainBits)
    /\ res.val.threshold = POW_LIMIT_LE

\* Lower targets scaled by 1071: the threshold is below the limit.
C25_WitnessBelowLimit ==
    /\ res.tag = "Done" /\ res.val.ats_bounded = 1071
    /\ ctx.bits[1] = U32(7183, 65520)
    /\ res.val.threshold # POW_LIMIT_LE /\ res.val.threshold # ZeroTarget


\* C26: whenever expected_nbits returns Ok(e), the target e decodes to is within the PoW
\* limit and bit 23 of e, the sign bit of the compact form, is clear.
C26_ExpectedWithinLimit ==
    (res.tag = "Done" /\ IsOk(res.val.expected)) =>
        /\ cmp_target(target_from_nbits(res.val.expected.val), POW_LIMIT_LE) # "Greater"
        /\ (res.val.expected.val.hi \div 128) % 2 = 0

\* Bits above the limit (0x200fffff) in the context: the scaled mean is cut to the limit
\* and the expected nBits are 0x1f07ffff.
C26_Witness ==
    /\ res.tag = "Done" /\ ctx.bits[1] = U32(8192 + 15, 65535)
    /\ res.val.threshold = POW_LIMIT_LE
    /\ res.val.expected = Ok(ChainBits)


----------------------------------------------------------------------------
(* The merge tree of a validated solution *)

\* The depth of a node over len = 2^d indices (leaves are at depth 0).
DepthOf(len) == CHOOSE d \in 0..24 : 2 ^ d = len

\* The merge tree over idx built with the left-first midpoint split: the node at its
\* root, and whether every node of it has the shape C27 states: the left child's first
\* index below the right child's, the indices of the left child followed by those of
\* the right, equal to the slice of the decoded list the node stands over, 2^d of them,
\* and a hash of (k + 1 - d) * collision_byte_length bytes (30 - 3 d for (200, 9)).
RECURSIVE TreeShape(_, _, _)
TreeShape(p, state, idx) ==
    IF Len(idx) = 1
    THEN Bind(Node_new(p, state, idx[1]).val, LAMBDA leaf :
            [node |-> leaf,
             good |-> /\ leaf.indices = idx
                      /\ Len(leaf.hash) = (p.k + 1) * collision_byte_length(p)])
    ELSE Bind(TreeShape(p, state, SubSeq(idx, 1, Len(idx) \div 2)), LAMBDA l :
         Bind(TreeShape(p, state, SubSeq(idx, Len(idx) \div 2 + 1, Len(idx))), LAMBDA r :
         Bind(from_children(l.node, r.node, collision_byte_length(p)), LAMBDA node :
            [node |-> node,
             good |-> /\ l.good /\ r.good
                      /\ l.node.indices[1] < r.node.indices[1]
                      /\ node.indices = l.node.indices \o r.node.indices
                      /\ node.indices = idx
                      /\ Len(node.indices) = 2 ^ DepthOf(Len(idx))
                      /\ Len(node.hash) =
                            (p.k + 1 - DepthOf(Len(idx))) * collision_byte_length(p)
                      /\ (p.n = 200 /\ p.k = 9) =>
                            Len(node.hash) = 30 - 3 * DepthOf(Len(idx))])))

\* tree_validator has returned a root: the verifier's answer is Ok or NonZeroRootHash.
Validated == /\ op.name = "verify_equihash_solution_with_params"
             /\ res \in {Ok(Unit), Err(EqErr("NonZeroRootHash"))}

\* C27: whenever tree_validator returns a root, at every internal node the left child's
\* first index is strictly smaller than the right child's, from_children has
\* concatenated left then right, the root's index list is the decoded list in its
\* original order, and a node of depth d holds 2^d indices and (for (200, 9)) 30 - 3 d
\* hash bytes.
C27_TreeShape ==
    Validated =>
        LET p == CHOOSE q \in Params_new(op.n, op.k) : TRUE
            state == state_update(initialise_state(p.n, p.k, hash_output(p)).val, op.powheader)
        IN  Bind(TreeShape(p, state, DecodedIndices(op)), LAMBDA t :
                /\ t.good
                /\ tree_validator(p, state, DecodedIndices(op)) = Ok(t.node)
                /\ t.node.indices = DecodedIndices(op))

\* A (200, 9) solution has validated: the root stands over the 512 decoded indices and
\* has 3 hash bytes left.
C27_Witness ==
    /\ Validated /\ op.n = 200 /\ op.k = 9 /\ op.powheader = "zero"
    /\ Bind(DecodedIndices(op), LAMBDA idx :
        /\ Len(idx) = 512 /\ idx[512] = 2097151
        /\ LET p == CHOOSE q \in Params_new(200, 9) : TRUE
               state == state_update(initialise_state(200, 9, hash_output(p)).val, "zero")
           IN  Bind(tree_validator(p, state, idx), LAMBDA root :
                   IsOk(root) /\ Len(root.val.hash) = 3 /\ root.val.indices = idx))


\* The expanded hashes of the leaves of idx, and byte x of their XOR.
LeafHashes(p, state, idx) ==
    Vec([i \in 1..Len(idx) |-> Node_new(p, state, idx[i]).val.hash], Len(idx))
XorOfLeaves(leaves, x) ==
    ForLoop(LAMBDA acc, i : Xor(acc, leaves[i + 1][x]), 0, Len(leaves), 0)

\* C28: whenever the verifier returns Ok, the byte-wise XOR of the expanded leaf hashes
\* (512 hashes of 30 bytes for (200, 9)) is zero in every byte; and it returns
\* NonZeroRootHash only when every sibling check in the whole tree has passed and at
\* least one of the bytes left at the root (3 for (200, 9)) is nonzero.
C28_XorZero ==
    Validated =>
        LET p == CHOOSE q \in Params_new(op.n, op.k) : TRUE
            state == state_update(initialise_state(p.n, p.k, hash_output(p)).val, op.powheader)
            len == (p.k + 1) * collision_byte_length(p)
        IN  Bind(DecodedIndices(op), LAMBDA idx :
            Bind(LeafHashes(p, state, idx), LAMBDA leaves :
            /\ (p.n = 200 /\ p.k = 9) =>
                  (Len(leaves) = 512 /\ \A i \in 1..512 : Len(leaves[i]) = 30)
            /\ res = Ok(Unit) => \A x \in 1..len : XorOfLeaves(leaves, x) = 0
            /\ res = Err(EqErr("NonZeroRootHash")) =>
                  Bind(PostOrder(p, state, idx), LAMBDA t :
                    /\ t.err = "none"
                    /\ Len(t.node.hash) = collision_byte_length(p)
                    /\ \E x \in 1..Len(t.node.hash) : t.node.hash[x] # 0
                    /\ \A x \in 1..Len(t.node.hash) :
                          t.node.hash[x] = XorOfLeaves(leaves, len - Len(t.node.hash) + x))))

\* A (200, 9) solution whose leaves differ in their last byte has been accepted: the
\* 256 ones of that byte cancel.
C28_Witness ==
    /\ op.name = "verify_equihash_solution_with_params" /\ op.n = 200 /\ op.k = 9
    /\ op.powheader = "low" /\ res = Ok(Unit)
    /\ Bind(DecodedIndices(op), LAMBDA idx : Len(idx) = 512 /\ idx[512] = 2097151)

\* A (200, 9) solution that passes every sibling check and leaves a nonzero byte at the
\* root has been answered with NonZeroRootHash.
C28_WitnessNonZero ==
    /\ op.name = "verify_equihash_solution_with_params" /\ op.n = 200 /\ op.k = 9
    /\ op.powheader = "low" /\ res = Err(EqErr("NonZeroRootHash"))
    /\ Bind(DecodedIndices(op), LAMBDA idx : Len(idx) = 512 /\ idx[512] = 2097150)


----------------------------------------------------------------------------
(* The heights sync_chain persists *)

\* C29: in one sync_chain run the heights passed to store.put are effective_start,
\* effective_start + 1, ... without gap, repeat or reordering, effective_start being
\* the store's tip + 1 when the store has a tip (whatever start_height is) and
\* start_height otherwise; the height advances by exactly 1, and only after a
\* successful put.
C29_PutSequence ==
    [][/\ (pc = "idle" /\ pc' = "fetch") =>
            cur_height' = IF store = <<>> THEN op'.start_height
                          ELSE U32WrappingInc(store[Len(store)].height)
       /\ store' # store =>
            /\ pc = "persist"
            /\ store' = Append(store, Record(cur_height, header_to_hex(cur_header)))
            /\ pc' = "fetch" => cur_height' = U32WrappingInc(cur_height)
            /\ pc' # "fetch" => (pc' = "idle" /\ cur_height = U32_MAX /\ res' = Ok(Unit))
       /\ (pc # "idle" /\ pc' # "idle" /\ cur_height' # cur_height) =>
            (pc = "persist" /\ store' # store)
       /\ (pc # "idle" /\ pc' # "idle" /\ store' = store) => cur_height' = cur_height
    ]_vars

\* The store holds the heights 28 to 31, each put once and in order; the loop has just
\* put 31 and waits for the header of height 32.
C29_Witness ==
    /\ pc = "fetch" /\ op.name = "put" /\ op.height = U32(0, 31)
    /\ cur_height = U32(0, 32)
    /\ Len(store) = 4
    /\ \A j \in 1..4 : store[j].height = U32(0, 27 + j)
    /\ ctx.tip_height = U32(0, 31)

\* A run started with start_height = u32::MAX - 1 on a store whose tip is 29 starts at 30.
C29_WitnessStart ==
    /\ Seeded /\ op.start_height = U32(65535, 65534)
    /\ Len(store) = 2 /\ store[2].height = U32(0, 29)
    /\ cur_height = U32(0, 30)


----------------------------------------------------------------------------
(* The sign bit of nBits *)

\* nbits with bit 23 cleared.
ClearSign(n) == U32(n.hi - 128 * ((n.hi \div 128) % 2), n.lo)

\* C30: target_from_nbits ignores bit 23 of nbits: for every hash and nbits,
\* verify_difficulty_filter(hash, nbits) has the outcome it has for nbits with bit 23
\* cleared, so nbits with the sign bit set are never rejected for it.
C30_SignBitIgnored ==
    (op.name = "verify_difficulty_filter" /\ res # Pending) =>
        /\ target_from_nbits(op.bits) = target_from_nbits(ClearSign(op.bits))
        /\ res = verify_difficulty_filter(op.hash, ClearSign(op.bits))
        /\ (ClearSign(op.bits) = ChainBits /\ op.hash = POW_LIMIT_LE) =>
              res = Err(DiffErr("HashAboveTarget"))
        /\ (ClearSign(op.bits) = ChainBits /\ op.hash = ZeroTarget) => res = Ok(Unit)

\* 0x1f87ffff, the compact PoW limit with the sign bit set, has been accepted.
C30_Witness ==
    /\ op.name = "verify_difficulty_filter" /\ op.bits = U32(8071, 65535)
    /\ op.hash = target_from_nbits(ChainBits)
    /\ res = Ok(Unit)

====
